---------------------------- MODULE Spec2Model ----------------------------
(***************************************************************************)
(* Verification model of the signing subsystem of the Loopring client:     *)
(* prime-field arithmetic (ethsnarks/field.py, numtheory.py), the Baby     *)
(* Jubjub point types (ethsnarks/jubjub.py), the Poseidon permutation      *)
(* (ethsnarks/poseidon/permutation.py), the EdDSA scheme                   *)
(* (ethsnarks/eddsa.py) and the signing helper (sig/eddsa.py).             *)
(*                                                                         *)
(* The curve is instantiated at a small size that keeps every structural   *)
(* relation of the constants in util/enums.py:                             *)
(*   - JUBJUB_Q is a prime with Q % 8 = 1 (general square-root branch),    *)
(*     Q % 5 # 1 (Poseidon exponent 5);                                    *)
(*   - JUBJUB_A = MONT_A + 2 is a square, JUBJUB_D = MONT_A - 2 is not;    *)
(*   - the curve has JUBJUB_E = JUBJUB_C * JUBJUB_L points, JUBJUB_C = 8,  *)
(*     JUBJUB_L prime, and JUBJUB_E > JUBJUB_Q as for Baby Jubjub;         *)
(*   - the generator has order JUBJUB_L.                                   *)
(* Python integers are unbounded; every intermediate value of the model    *)
(* stays far below 2^31.                                                   *)
(***************************************************************************)
EXTENDS Integers, Sequences, FiniteSets, TLC

VARIABLES pc, op, storage_ids, issued, exchange_domain_initialised, EIP712, calls

\* the state of the EIP-712 domain separators: the flag of the client, the
\* class attributes of EIP712, and the calls counted so far
domain_vars == <<exchange_domain_initialised, EIP712, calls>>

vars == <<pc, op, storage_ids, issued, exchange_domain_initialised, EIP712, calls>>

---------------------------------------------------------------------------
(* util/enums.py : IntSig *)

SNARK_SCALAR_FIELD == 73

JUBJUB_Q == SNARK_SCALAR_FIELD

JUBJUB_E == 88

FR_ORDER == JUBJUB_E

JUBJUB_C == 8

JUBJUB_L == JUBJUB_E \div JUBJUB_C

JUBJUB_A == 24

JUBJUB_D == 20

MONT_A == 22

MONT_B == 1

---------------------------------------------------------------------------
(* Python builtins used by the code *)

\* Python evaluates eagerly: the value v is computed once, before the code
\* F that uses it
Strict(v, F(_)) == CHOOSE r \in {F(x) : x \in {v}} : TRUE

\* pow(base, exp, mod) for exp >= 0
RECURSIVE pow(_, _, _)
pow(base, exp, mod) ==
    IF exp = 0 THEN 1 % mod
    ELSE LET h == pow(base, exp \div 2, mod)
             sq == (h * h) % mod
         IN  IF exp % 2 = 1 THEN (sq * (base % mod)) % mod ELSE sq

\* ceil(log2(m)) for m >= 1
RECURSIVE ceil_log2_from(_, _, _)
ceil_log2_from(m, k, twok) ==
    IF twok >= m THEN k ELSE ceil_log2_from(m, k + 1, 2 * twok)

ceil_log2(m) == ceil_log2_from(m, 0, 1)

\* 2 ** k
RECURSIVE pow2(_)
pow2(k) == IF k = 0 THEN 1 ELSE 2 * pow2(k - 1)

---------------------------------------------------------------------------
(* ethsnarks/numtheory.py *)

RECURSIVE strip_twos(_, _)
strip_twos(a1, e) ==
    IF a1 % 2 = 0 THEN strip_twos(a1 \div 2, e + 1) ELSE <<a1, e>>

RECURSIVE jacobi(_, _)
jacobi(a0, n) ==
    LET a == a0 % n IN
    IF a = 0 THEN 0
    ELSE IF a = 1 THEN 1
    ELSE LET ae == strip_twos(a, 0)
             a1 == ae[1]
             e  == ae[2]
             s  == IF e % 2 = 0 \/ n % 8 \in {1, 7} THEN 1 ELSE -1
         IN  IF a1 = 1 THEN s
             ELSE LET s2 == IF n % 4 = 3 /\ a1 % 4 = 3 THEN -s ELSE s
                  IN  s2 * jacobi(n % a1, a1)

modular_exp(base, exp, mod) == pow(base, exp, mod)

\* the inner loop "for i in range(2, len(pmod) + 1)" on the last coefficient
polynomial_reduce_step(poly, pmod, p) ==
    LET n  == Len(poly)
        k  == Len(pmod)
        hi == poly[n]
    IN  [i \in 1..(n - 1) |->
            IF hi # 0 /\ i >= n - k + 1
            THEN (poly[i] - hi * pmod[i - (n - k)]) % p
            ELSE poly[i]]

RECURSIVE polynomial_reduce_mod(_, _, _)
polynomial_reduce_mod(poly, pmod, p) ==
    IF Len(poly) >= Len(pmod)
    THEN polynomial_reduce_mod(polynomial_reduce_step(poly, pmod, p), pmod, p)
    ELSE poly

RECURSIVE conv_sum(_, _, _, _, _)
conv_sum(m1, m2, k, i, p) ==
    IF i > Len(m1) THEN 0
    ELSE LET j == k - i + 1
             term == IF j >= 1 /\ j <= Len(m2) THEN m1[i] * m2[j] ELSE 0
         IN  (conv_sum(m1, m2, k, i + 1, p) + term) % p

polynomial_multiply_mod(m1, m2, pmod, p) ==
    LET prod == [k \in 1..(Len(m1) + Len(m2) - 1) |-> conv_sum(m1, m2, k, 1, p)]
    IN  polynomial_reduce_mod(prod, pmod, p)

\* loop state of polynomial_exp_mod: (G, k, s)
RECURSIVE polynomial_exp_loop(_, _, _, _, _)
polynomial_exp_loop(G, k, s, pmod, p) ==
    IF k > 1
    THEN LET k2 == k \div 2
             G2 == polynomial_multiply_mod(G, G, pmod, p)
             s2 == IF k2 % 2 = 1 THEN polynomial_multiply_mod(G2, s, pmod, p) ELSE s
         IN  polynomial_exp_loop(G2, k2, s2, pmod, p)
    ELSE s

polynomial_exp_mod(base, exp, pmod, p) ==
    IF exp = 0 THEN <<1>>
    ELSE polynomial_exp_loop(base, exp, IF exp % 2 = 1 THEN base ELSE <<1>>, pmod, p)

\* result of a call: the value returned, or the name of the exception raised
Return(v) == [raised |-> "", value |-> v]

Raise(e) == [raised |-> e, value |-> 0]

RECURSIVE find_b(_, _, _)
find_b(a, p, b) ==
    IF b >= p THEN Raise("SDKError")
    ELSE IF jacobi(b * b - 4 * a, p) = -1
         THEN LET f  == <<a, -b, 1>>
                  ff == polynomial_exp_mod(<<0, 1>>, (p + 1) \div 2, f, p)
              IN  IF Len(ff) >= 2 /\ ff[2] # 0 THEN Raise("AssertionError")
                  ELSE Return(ff[1])
         ELSE find_b(a, p, b + 1)

\* a square root that takes the exponent (p + 3) / 8 for every residue of a
\* prime p with p % 8 = 5
square_root_mod_prime_one_case(a, p) ==
    IF a = 0 THEN Return(0)
    ELSE IF p = 2 THEN Return(a)
    ELSE IF jacobi(a, p) = -1 THEN Raise("SquareRootError")
    ELSE IF p % 4 = 3 THEN Return(modular_exp(a, (p + 1) \div 4, p))
    ELSE IF p % 8 = 5 THEN Return(modular_exp(a, (p + 3) \div 8, p))
    ELSE find_b(a, p, 2)

square_root_mod_prime(a, p) ==
    IF a = 0 THEN Return(0)
    ELSE IF p = 2 THEN Return(a)
    ELSE IF jacobi(a, p) = -1 THEN Raise("SquareRootError")
    ELSE IF p % 4 = 3 THEN Return(modular_exp(a, (p + 1) \div 4, p))
    ELSE IF p % 8 = 5
         THEN LET d == modular_exp(a, (p - 1) \div 4, p)
              IN  IF d = 1 THEN Return(modular_exp(a, (p + 3) \div 8, p))
                  ELSE IF d = p - 1
                       THEN Return((2 * a * modular_exp(4 * a, (p - 5) \div 8, p)) % p)
                       ELSE Raise("SDKError")
    ELSE find_b(a, p, 2)

---------------------------------------------------------------------------
(* ethsnarks/field.py : class FQ.  A field element is the record          *)
(* [n |-> value, m |-> modulus]; plain Python integers are TLA+ integers.  *)
(* An operator named X_int is the method X applied to an int operand (the  *)
(* second branch of _validate_n).                                          *)

FQ(n, field_modulus) == [n |-> n % field_modulus, m |-> field_modulus]

\* FQ(n) with the default modulus
FQ1(n) == FQ(n, SNARK_SCALAR_FIELD)

\* raised by _validate_n; no FQ has modulus 0
FQRaised == [n |-> 0, m |-> 0]

\* _validate_n on an FQ operand: its value, or -1 for the RuntimeError
validate_n(self, other) == IF other.m # self.m THEN -1 ELSE other.n

FQ_one == FQ(1, SNARK_SCALAR_FIELD)

FQ_zero == FQ(0, SNARK_SCALAR_FIELD)

FQ_add(self, other) ==
    LET on == validate_n(self, other) IN
    IF on = -1 THEN FQRaised ELSE FQ((self.n + on) % self.m, self.m)

FQ_add_int(self, on) == FQ((self.n + on) % self.m, self.m)

FQ_sub(self, other) ==
    LET on == validate_n(self, other) IN
    IF on = -1 THEN FQRaised ELSE FQ((self.n - on) % self.m, self.m)

FQ_sub_int(self, on) == FQ((self.n - on) % self.m, self.m)

\* a reflected subtraction that keeps the raw difference
FQ_rsub_int_raw(self, on) == [n |-> on - self.n, m |-> self.m]

FQ_rsub_int(self, on) == FQ((on - self.n) % self.m, self.m)

FQ_mul(self, other) ==
    LET on == validate_n(self, other) IN
    IF on = -1 THEN FQRaised ELSE FQ((self.n * on) % self.m, self.m)

FQ_mul_int(self, on) == FQ((self.n * on) % self.m, self.m)

FQ_neg(self) == FQ(-self.n, self.m)

FQ_div(self, other) ==
    LET on == validate_n(self, other) IN
    IF on = -1 THEN FQRaised
    ELSE FQ((self.n * pow(on, self.m - 2, self.m)) % self.m, self.m)

FQ_div_int(self, on) == FQ((self.n * pow(on, self.m - 2, self.m)) % self.m, self.m)

FQ_rdiv_int(self, on) == FQ((pow(self.n, self.m - 2, self.m) * on) % self.m, self.m)

\* pow(base, exp, mod) for any exp: a negative exp takes the inverse of base
\* first and raises ValueError when base has none
pow_signed(base, exp, mod) ==
    IF exp >= 0 THEN Return(pow(base, exp, mod))
    ELSE IF \E x \in 0..(mod - 1) : (x * base) % mod = 1 % mod
         THEN Return(pow(CHOOSE x \in 0..(mod - 1) : (x * base) % mod = 1 % mod, -exp, mod))
         ELSE Raise("ValueError")

FQ_exp_int(self, e) ==
    LET r == pow_signed(self.n, e, self.m) IN
    IF r.raised # "" THEN FQRaised ELSE FQ(r.value, self.m)

FQ_exp(self, e) ==
    LET en == validate_n(self, e) IN
    IF en = -1 THEN FQRaised ELSE FQ_exp_int(self, en)

FQ_inv(self) == FQ(pow(self.n, self.m - 2, self.m), self.m)

\* __eq__ on an FQ operand: "if other == 0.: other = 0" replaces a zero
\* operand by the int 0 before _validate_n sees its modulus; a modulus
\* mismatch of a nonzero operand (-1 from validate_n) compares unequal here
FQ_eq(self, other) ==
    IF other.n = 0 THEN self.n = 0 ELSE self.n = validate_n(self, other)

\* __eq__ on an FQ operand with the RuntimeError of _validate_n kept apart
\* from the answer: "other == 0." is itself FQ.__eq__(other, 0.), true
\* exactly when other.n is 0, and then other becomes the int 0
FQ_eq_outcome(self, other) ==
    IF other.n = 0 THEN [raised |-> "", value |-> self.n = 0]
    ELSE IF other.m # self.m THEN [raised |-> "RuntimeError", value |-> FALSE]
    ELSE [raised |-> "", value |-> self.n = other.n]

\* __eq__ on an int operand

FQ_eq_int(self, on) == self.n = on

\* sqrt: the root, or FQRaised when square_root_mod_prime raises
FQ_sqrt(self) ==
    LET r == square_root_mod_prime(self.n, self.m) IN
    IF r.raised # "" THEN FQRaised ELSE FQ(r.value, self.m)

\* int.to_bytes(v, nbytes, "little") as a sequence of bytes
int_to_bytes(v, nbytes) ==
    [i \in 1..nbytes |-> (v \div pow2(8 * (i - 1))) % 256]

\* int.from_bytes(b, "little")
RECURSIVE int_from_bytes(_)
int_from_bytes(b) ==
    IF Len(b) = 0 THEN 0 ELSE b[1] + 256 * int_from_bytes(Tail(b))

FQ_to_bytes(self) ==
    LET nbits0 == ceil_log2(self.m)
        nbits  == nbits0 + (8 - (nbits0 % 8))
    IN  int_to_bytes(self.n, nbits \div 8)

---------------------------------------------------------------------------
(* ethsnarks/jubjub.py *)

is_negative(value) == value.n > FQ_neg(value).n

Point(x, y) == [x |-> x, y |-> y]

Point_infinity == Point(FQ1(0), FQ1(1))

Point_generator == Point(FQ1(12), FQ1(47))

Point_add(self, other) ==
    IF FQ_eq_int(self.x, 0) /\ FQ_eq_int(self.y, 0) THEN other
    ELSE LET u1 == self.x
             v1 == self.y
             u2 == other.x
             v2 == other.y
             duv == FQ_mul(FQ_mul(FQ_mul(FQ_mul_int(u1, JUBJUB_D), u2), v1), v2)
             u3 == FQ_div(FQ_add(FQ_mul(u1, v2), FQ_mul(v1, u2)),
                          FQ_add(FQ_one, duv))
             v3 == FQ_div(FQ_sub(FQ_mul(v1, v2), FQ_mul(FQ_mul_int(u1, JUBJUB_A), u2)),
                          FQ_sub(FQ_one, duv))
         IN  Point(u3, v3)

Point_neg(self) == Point(FQ_neg(self.x), self.y)

Point_double(self) == Point_add(self, self)

Point_valid(self) ==
    LET xsq == FQ_mul(self.x, self.x)
        ysq == FQ_mul(self.y, self.y)
    IN  FQ_eq(FQ_add(FQ_mul_int(xsq, JUBJUB_A), ysq),
              FQ_add_int(FQ_mul(FQ_mul_int(xsq, JUBJUB_D), ysq), 1))

Point_eq(self, other) == FQ_eq(self.x, other.x) /\ FQ_eq(self.y, other.y)

\* the loop of CurveOps.mult on an integer scalar >= 0: state (p, a, scalar)
RECURSIVE mult_loop(_, _, _)
mult_loop(p, a, scalar) ==
    IF scalar # 0
    THEN Strict(IF scalar % 2 # 0 THEN Point_add(a, p) ELSE a, LAMBDA a2 :
         Strict(Point_double(p), LAMBDA p2 :
         mult_loop(p2, a2, scalar \div 2)))
    ELSE a

\* CurveOps.mult with an int scalar
Point_mult_int(self, scalar) == mult_loop(self, Point_infinity, scalar)

\* CurveOps.mult with an FQ scalar; the ValueError is the point (0, 0) over modulus 0
Point_mult(self, scalar) ==
    IF scalar.m \notin {SNARK_SCALAR_FIELD, JUBJUB_E, JUBJUB_L}
    THEN Point(FQRaised, FQRaised)
    ELSE mult_loop(self, Point_infinity, scalar.n)

\* a list of low-order points with the generator in the place of (0, -1)
all_loworder_points_generator ==
    <<Point(FQ1(0), FQ1(1)), Point_generator, Point(FQ1(17), FQ1(0)),
      Point(FQ1(32), FQ1(11)), Point(FQ1(32), FQ1(62)),
      Point(FQ1(41), FQ1(11)), Point(FQ1(41), FQ1(62)), Point(FQ1(56), FQ1(0))>>

\* CurveOps.all_loworder_points, the points of the curve at this size in
\* the order of the source: (0, 1), (0, -1), (x, 0), (u, v), (u, -v),
\* (-u, v), (-u, -v), (-x, 0)
all_loworder_points ==
    <<Point(FQ1(0), FQ1(1)), Point(FQ1(0), FQ1(72)), Point(FQ1(17), FQ1(0)),
      Point(FQ1(32), FQ1(11)), Point(FQ1(32), FQ1(62)),
      Point(FQ1(41), FQ1(11)), Point(FQ1(41), FQ1(62)), Point(FQ1(56), FQ1(0))>>

\* the loop of wNAF: state (k, output) with a = 2**width, b = 2**(width-1);
\* the digits are collected least significant first
RECURSIVE wNAF_loop(_, _, _, _)
wNAF_loop(k, a, b, output) ==
    IF k > 0
    THEN IF k % 2 = 1
         THEN LET c   == k % a
                  k_i == IF c > b THEN c - a ELSE c
              IN  wNAF_loop((k - k_i) \div 2, a, b, Append(output, k_i))
         ELSE wNAF_loop(k \div 2, a, b, Append(output, 0))
    ELSE output

\* output[::-1]
Reverse(seq) == [i \in 1..Len(seq) |-> seq[Len(seq) + 1 - i]]

wNAF(k, width) == Reverse(wNAF_loop(k, pow2(width), pow2(width - 1), <<>>))

\* the entry res[0] of naf_window
None == Point(FQRaised, FQRaised)

\* the keys n >= 1 that naf_window fills: 1, 2 and the odd n below a
naf_keys(a) == {n \in 1..(a - 1) : n <= 2 \/ n % 2 = 1}

\* p_n of naf_window for a key n >= 1
RECURSIVE naf_entry(_, _)
naf_entry(point, n) ==
    IF n = 1 THEN point
    ELSE IF n = 2 THEN Point_double(point)
    ELSE Point_add(naf_entry(point, n - 2), naf_entry(point, 2))

naf_window(point, nbits) ==
    LET a == pow2(nbits) \div 2
    IN  [n \in {0} \cup naf_keys(a) \cup {-n : n \in naf_keys(a)} |->
            IF n = 0 THEN None
            ELSE IF n > 0 THEN naf_entry(point, n)
            ELSE Point_neg(naf_entry(point, -n))]

\* the loop of mult_naf_lut over the digits, most significant first
RECURSIVE mult_naf_loop(_, _, _)
mult_naf_loop(a, w, digits) ==
    IF Len(digits) = 0 THEN a
    ELSE LET a2 == Point_double(a)
             p  == w[digits[1]]
         IN  mult_naf_loop(IF p # None THEN Point_add(a2, p) ELSE a2, w, Tail(digits))

\* a digit loop that subtracts the table entry of a negative digit's absolute
\* value without negating it
RECURSIVE mult_naf_loop_unsigned(_, _, _)
mult_naf_loop_unsigned(a, w, digits) ==
    IF Len(digits) = 0 THEN a
    ELSE LET a2 == Point_double(a)
             d  == IF digits[1] < 0 THEN -digits[1] ELSE digits[1]
             p  == w[d]
         IN  mult_naf_loop_unsigned(IF p # None THEN Point_add(a2, p) ELSE a2, w, Tail(digits))

\* mult_naf_lut that ignores the sign of the digits
mult_naf_lut_unsigned(point, scalar, width) ==
    mult_naf_loop_unsigned(Point_infinity, naf_window(point, width), wNAF(scalar, width))

mult_naf_lut(point, scalar, width) ==
    mult_naf_loop(Point_infinity, naf_window(point, width), wNAF(scalar, width))

\* CurveOps.mult_wnaf
Point_mult_wnaf(self, scalar, window) == mult_naf_lut(self, scalar, window)

\* length in bytes of a compressed point (Point.decompress, Point.compress)
CompressedLen == 2

\* the bit of the encoding that holds the sign of x: the top bit of the last byte
SignBit == 8 * CompressedLen - 1

\* from_y that drops the requested sign and always returns the non-negative root
Point_from_y_unsigned(y, sign) ==
    LET ysq == FQ_mul(y, y)
        lhs == FQ_sub_int(ysq, 1)
        rhs == FQ_sub_int(FQ_mul_int(ysq, JUBJUB_D), JUBJUB_A)
        xsq == FQ_div(lhs, rhs)
        x   == FQ_sqrt(xsq)
    IN  IF x = FQRaised THEN Raise("SquareRootError")
        ELSE Return(Point(IF is_negative(x) THEN FQ_neg(x) ELSE x, y))

Point_from_y(y, sign) ==
    LET ysq == FQ_mul(y, y)
        lhs == FQ_sub_int(ysq, 1)
        rhs == FQ_sub_int(FQ_mul_int(ysq, JUBJUB_D), JUBJUB_A)
        xsq == FQ_div(lhs, rhs)
        x   == FQ_sqrt(xsq)
    IN  IF x = FQRaised THEN Raise("SquareRootError")
        ELSE IF sign # 0
             THEN Return(Point(IF is_negative(x) # (sign # 0) THEN FQ_neg(x) ELSE x, y))
             ELSE Return(Point(IF is_negative(x) THEN FQ_neg(x) ELSE x, y))

Point_compress(self) ==
    LET x == self.x
        y == self.y.n
    IN  int_to_bytes(y + (IF is_negative(x) THEN pow2(SignBit) ELSE 0), CompressedLen)

Point_decompress(point) ==
    IF Len(point) # CompressedLen THEN Raise("ValueError")
    ELSE LET y0   == int_from_bytes(point)
             sign == y0 \div pow2(SignBit)
             y    == y0 % pow2(SignBit)
         IN  Point_from_y(FQ1(y), sign)

EtecPoint(x, y, t, z) == [x |-> x, y |-> y, t |-> t, z |-> z]

ProjPoint(x, y, z) == [x |-> x, y |-> y, z |-> z]

MontPoint(u, v) == [u |-> u, v |-> v]

Point_as_etec(self) == EtecPoint(self.x, self.y, FQ_mul(self.x, self.y), FQ1(1))

Point_as_proj(self) == ProjPoint(self.x, self.y, FQ1(1))

\* as_point that multiplies by z instead of its inverse
EtecPoint_as_point_noinv(self) ==
    Point(FQ_mul(self.x, self.z), FQ_mul(self.y, self.z))

EtecPoint_as_point(self) ==
    LET inv_z == FQ_inv(self.z)
    IN  Point(FQ_mul(self.x, inv_z), FQ_mul(self.y, inv_z))

EtecPoint_as_proj(self) == ProjPoint(self.x, self.y, self.z)

ProjPoint_as_etec(self) == EtecPoint(self.x, self.y, FQ_mul(self.x, self.y), self.z)

\* the assertion z != 0, then the division by z
ProjPoint_as_point(self) ==
    IF FQ_eq_int(self.z, 0) THEN Raise("AssertionError")
    ELSE LET inv_z == FQ_inv(self.z)
         IN  Return(Point(FQ_mul(self.x, inv_z), FQ_mul(self.y, inv_z)))

EtecPoint_infinity == EtecPoint(FQ1(0), FQ1(1), FQ1(0), FQ1(1))

\* the result of an extended-point operation that raised
EtecNone == EtecPoint(FQRaised, FQRaised, FQRaised, FQRaised)

\* an addition whose h leaves out the curve coefficient a
EtecPoint_add_no_a(self, other) ==
    LET x1x2  == FQ_mul(self.x, other.x)
        y1y2  == FQ_mul(self.y, other.y)
        dt1t2 == FQ_mul(FQ_mul_int(self.t, JUBJUB_D), other.t)
        z1z2  == FQ_mul(self.z, other.z)
        e == FQ_sub(FQ_sub(FQ_mul(FQ_add(self.x, self.y), FQ_add(other.x, other.y)),
                           x1x2), y1y2)
        f == FQ_sub(z1z2, dt1t2)
        g == FQ_add(z1z2, dt1t2)
        h == FQ_sub(y1y2, x1x2)
    IN  EtecPoint(FQ_mul(e, f), FQ_mul(g, h), FQ_mul(e, h), FQ_mul(f, g))

\* EtecPoint.add: "other" for the infinity (0, 1, 0, 1), the assertion on the
\* two z, then the unified addition
EtecPoint_add(self, other) ==
    IF self = EtecNone \/ other = EtecNone THEN EtecNone
    ELSE IF self = EtecPoint_infinity THEN other
    ELSE IF ~(~FQ_eq_int(self.z, 0) /\ ~FQ_eq_int(other.z, 0)) THEN EtecNone
    ELSE LET x1x2  == FQ_mul(self.x, other.x)
             y1y2  == FQ_mul(self.y, other.y)
             dt1t2 == FQ_mul(FQ_mul_int(self.t, JUBJUB_D), other.t)
             z1z2  == FQ_mul(self.z, other.z)
             e == FQ_sub(FQ_sub(FQ_mul(FQ_add(self.x, self.y), FQ_add(other.x, other.y)),
                                x1x2), y1y2)
             f == FQ_sub(z1z2, dt1t2)
             g == FQ_add(z1z2, dt1t2)
             h == FQ_sub(y1y2, FQ_mul_int(x1x2, JUBJUB_A))
         IN  EtecPoint(FQ_mul(e, f), FQ_mul(g, h), FQ_mul(e, h), FQ_mul(f, g))

\* EtecPoint.double
EtecPoint_double(self) ==
    IF self = EtecNone THEN EtecNone
    ELSE IF self = EtecPoint_infinity THEN EtecPoint_infinity
    ELSE LET a  == FQ_mul(self.x, self.x)
             b  == FQ_mul(self.y, self.y)
             t0 == FQ_mul(self.z, self.z)
             c  == FQ_mul_int(t0, 2)
             d  == FQ_mul_int(a, JUBJUB_A)
             t1 == FQ_add(self.x, self.y)
             t2 == FQ_mul(t1, t1)
             t3 == FQ_sub(t2, a)
             e  == FQ_sub(t3, b)
             g  == FQ_add(d, b)
             f  == FQ_sub(g, c)
             h  == FQ_sub(d, b)
         IN  EtecPoint(FQ_mul(e, f), FQ_mul(g, h), FQ_mul(e, h), FQ_mul(f, g))

\* EtecPoint.neg
EtecPoint_neg(self) ==
    IF self = EtecNone THEN EtecNone
    ELSE EtecPoint(FQ_neg(self.x), self.y, FQ_neg(self.t), self.z)

\* the loop of CurveOps.mult on an extended point, for scalar >= 0
RECURSIVE EtecPoint_mult_loop(_, _, _)
EtecPoint_mult_loop(p, a, scalar) ==
    IF scalar # 0
    THEN Strict(IF scalar % 2 # 0 THEN EtecPoint_add(a, p) ELSE a, LAMBDA a2 :
         Strict(EtecPoint_double(p), LAMBDA p2 :
         EtecPoint_mult_loop(p2, a2, scalar \div 2)))
    ELSE a

\* CurveOps.mult of an extended point with an int scalar
EtecPoint_mult_int(self, scalar) == EtecPoint_mult_loop(self, EtecPoint_infinity, scalar)

MontPoint_infinity == MontPoint(FQ1(0), FQ1(1))

MontPoint_from_edwards(e) ==
    IF FQ_eq(e.y, FQ_one) THEN MontPoint(FQ_zero, FQ_one)
    ELSE IF FQ_eq(e.x, FQ_zero) THEN MontPoint(FQ_zero, FQ_zero)
    ELSE LET u == FQ_div(FQ_add(FQ_one, e.y), FQ_sub(FQ_one, e.y))
             v == FQ_div(u, e.x)
         IN  MontPoint(u, v)

Point_as_mont(self) == MontPoint_from_edwards(self)

MontPoint_as_point(self) ==
    LET x == FQ_div(self.u, self.v)
        y == FQ_div(FQ_sub_int(self.u, 1), FQ_add_int(self.u, 1))
    IN  Point(x, y)

---------------------------------------------------------------------------
(* ethsnarks/poseidon/permutation.py *)

\* H is the blake2b digest read as an integer; the digest function is a
\* library primitive and is represented by a fixed mixing function with
\* range HRange.  Byte-string seeds are represented by integers.
HRange == 7919

H(arg) == (arg * arg + 3 * arg + 41) % HRange

\* the integers standing for the byte strings seed + b"_constants" and
\* seed + b"_matrix_0000" with seed = b"poseidon"
SeedConstants == 1201

SeedMatrix == 2503

RECURSIVE poseidon_constants(_, _, _)
poseidon_constants(p, seed, n) ==
    IF n = 0 THEN <<>>
    ELSE LET seed2 == H(seed)
         IN  <<seed2 % p>> \o poseidon_constants(p, seed2, n - 1)

poseidon_matrix(p, seed, t) ==
    LET c == poseidon_constants(p, seed, t * 2)
    IN  [i \in 1..t |-> [j \in 1..t |-> pow((c[i] - c[t + j]) % p, p - 2, p)]]

\* poseidon_params with constants_C and constants_M left to their
\* defaults; the assertions on the security level concern the size of p and
\* are not part of the record that is returned
poseidon_params(p, t, n_rounds_f, n_rounds_p, e) ==
    [p |-> p, t |-> t, n_rounds_f |-> n_rounds_f, n_rounds_p |-> n_rounds_p, e |-> e,
     constants_C |-> poseidon_constants(p, SeedConstants, n_rounds_f + n_rounds_p),
     constants_M |-> poseidon_matrix(p, SeedMatrix, t)]

RECURSIVE row_sum(_, _, _)
row_sum(row, state, j) ==
    IF j > Len(state) THEN 0 ELSE row[j] * state[j] + row_sum(row, state, j + 1)

poseidon_mix(state, M, p) ==
    [i \in 1..Len(M) |-> row_sum(M[i], state, 1) % p]

\* an S-box that treats every round as a full round
poseidon_sbox_full(state, i, params) ==
    [j \in 1..Len(state) |-> pow(state[j], params.e, params.p)]

\* i is the 0-based round index of the source
poseidon_sbox(state, i, params) ==
    LET half_f == params.n_rounds_f \div 2
    IN  IF i < half_f \/ i >= half_f + params.n_rounds_p
        THEN [j \in 1..Len(state) |-> pow(state[j], params.e, params.p)]
        ELSE [j \in 1..Len(state) |->
                 IF j = 1 THEN pow(state[1], params.e, params.p) ELSE state[j]]

RECURSIVE poseidon_rounds(_, _, _)
poseidon_rounds(state, i, params) ==
    IF i >= Len(params.constants_C) THEN state
    ELSE LET C_i == params.constants_C[i + 1]
             s1  == [j \in 1..Len(state) |-> state[j] + C_i]
             s2  == poseidon_sbox(s1, i, params)
             s3  == poseidon_mix(s2, params.constants_M, params.p)
         IN  poseidon_rounds(s3, i + 1, params)

\* the states that poseidon(..., trace=True) prints, one per round
RECURSIVE poseidon_trace_from(_, _, _)
poseidon_trace_from(state, i, params) ==
    IF i >= Len(params.constants_C) THEN <<>>
    ELSE LET C_i == params.constants_C[i + 1]
             s1  == [j \in 1..Len(state) |-> state[j] + C_i]
             s2  == poseidon_sbox(s1, i, params)
             s3  == poseidon_mix(s2, params.constants_M, params.p)
         IN  <<s3>> \o poseidon_trace_from(s3, i + 1, params)

poseidon_trace(inputs, params) ==
    poseidon_trace_from([j \in 1..params.t |-> IF j <= Len(inputs) THEN inputs[j] ELSE 0],
                        0, params)

\* poseidon(inputs, params) with chained = False
poseidon(inputs, params) ==
    IF ~(Len(inputs) > 0) \/ ~(Len(inputs) < params.t) THEN Raise("AssertionError")
    ELSE LET state == [j \in 1..params.t |-> IF j <= Len(inputs) THEN inputs[j] ELSE 0]
         IN  Return(poseidon_rounds(state, 0, params)[1])

---------------------------------------------------------------------------
(* ethsnarks/pedersen.py, and Point.from_hash of ethsnarks/jubjub.py *)

\* digest of hashlib.sha256 over the bytes b"%-28s%04X" % (name, i), read as
\* an integer: a library primitive, represented by a fixed mixing function
\* of the integer standing for name and of i
sha256(name, i) == (name * 131 + i * 17 + 29) % HRange

\* the loop of Point.from_hash: the first y from the digest on that is the y
\* of a point
RECURSIVE from_hash_loop(_)
from_hash_loop(y) ==
    LET p == Point_from_y(y, 0)
    IN  IF p.raised = "SquareRootError" THEN from_hash_loop(FQ_add_int(y, 1))
        ELSE p.value

\* Point.from_hash on the digest entropy_as_int
Point_from_hash(entropy_as_int) ==
    Strict(from_hash_loop(FQ1(entropy_as_int)), LAMBDA q :
    Strict(Point_mult_int(q, JUBJUB_C), LAMBDA p :
        IF Point_mult_int(p, JUBJUB_L) # Point_infinity THEN Raise("RuntimeError")
        ELSE Return(p)))

\* pedersen_hash_basepoint(name, i) for a name of at most 28 bytes
pedersen_hash_basepoint(name, i) ==
    IF i < 0 \/ i > 65535 THEN EtecNone
    ELSE Strict(Point_from_hash(sha256(name, i)), LAMBDA p :
             IF p.raised # "" THEN EtecNone ELSE Point_as_etec(p.value))

\* n_windows (62), at the scale of the inputs
n_windows == 2

\* a segment term that is never negated
pedersen_segment_unsigned(current, window) ==
    EtecPoint_mult_int(current, (window % 4) + 1)

\* segment = current * ((window & 0b11) + 1), negated if window > 0b11
pedersen_segment(current, window) ==
    Strict(EtecPoint_mult_int(current, (window % 4) + 1), LAMBDA segment :
        IF window > 3 THEN EtecPoint_neg(segment) ELSE segment)

\* the loop of pedersen_hash_windows from window j (0-based) on; an exception
\* of a step ends the loop
RECURSIVE pedersen_hash_loop(_, _, _, _, _)
pedersen_hash_loop(name, windows, j, current, result) ==
    IF j >= Len(windows) THEN result
    ELSE Strict(IF j % n_windows = 0
                THEN pedersen_hash_basepoint(name, j \div n_windows)
                ELSE EtecPoint_double(EtecPoint_double(
                         EtecPoint_double(EtecPoint_double(current)))),
                LAMBDA cur :
         Strict(EtecPoint_add(result, pedersen_segment(cur, windows[j + 1])),
                LAMBDA sum :
         IF sum = EtecNone THEN EtecNone
         ELSE pedersen_hash_loop(name, windows, j + 1, cur, sum)))

pedersen_hash_windows(name, windows) ==
    EtecPoint_as_point(pedersen_hash_loop(name, windows, 0, EtecNone, EtecPoint_infinity))

---------------------------------------------------------------------------
(* ethsnarks/mimc/permutation.py *)

\* H is the keccak_256 digest read as an integer; the digest function is a
\* library primitive and is represented by a fixed mixing function with the
\* range of the blake2b stand-in.  Byte-string seeds are integers.
mimc_H(arg) == (arg * arg * 5 + arg + 97) % HRange

\* the integer standing for the seed b"mimc" (StrSig.DEFAULT_SEED)
DEFAULT_SEED == 1709

\* IntSig.DEFAULT_EXPONENT
DEFAULT_EXPONENT == 7

\* IntSig.DEFAULT_ROUNDS (91), at the scale of the field
DEFAULT_ROUNDS == 5

\* mimc_constants(seed, p, R) for a byte-string seed: R digests, unreduced
RECURSIVE mimc_constants_from(_, _)
mimc_constants_from(seed, n) ==
    IF n = 0 THEN <<>>
    ELSE LET seed2 == mimc_H(seed) IN <<seed2>> \o mimc_constants_from(seed2, n - 1)

mimc_constants(seed, p, R) == mimc_constants_from(mimc_H(seed), R)

RECURSIVE mimc_loop(_, _, _, _, _)
mimc_loop(x, k, cs, p, e) ==
    IF Len(cs) = 0 THEN x
    ELSE LET a == (x + k + cs[1]) % p
         IN  mimc_loop(pow(a, e, p), k, Tail(cs), p, e)

\* mimc(x, k, seed, p, e, R)
mimc(x, k, seed, p, e, R) ==
    (mimc_loop(x, k, mimc_constants(seed, p, R), p, e) + k) % p

\* the chaining value k after the loop of mimc_hash
RECURSIVE mimc_hash_chain(_, _, _, _, _, _)
mimc_hash_chain(x, k, seed, p, e, R) ==
    IF Len(x) = 0 THEN k
    ELSE LET r == mimc(x[1], k, seed, p, e, R)
         IN  mimc_hash_chain(Tail(x), (k + x[1] + r) % p, seed, p, e, R)

\* mimc_hash(x, k, seed, p, e, R): runs the chain and ends with "return p"
mimc_hash(x, k, seed, p, e, R) ==
    LET k_final == mimc_hash_chain(x, k, seed, p, e, R)
    IN  p

---------------------------------------------------------------------------
(* ethsnarks/eddsa.py *)

\* number of full / partial rounds of the signing parameter sets, at the
\* scale of the field
RoundsF == 6

RoundsP == 4

\* poseidon_params(SNARK_SCALAR_FIELD, 6, 6, 52, b"poseidon", 5) of PoseidonEdDSA.hash_public
PoseidonEdDSA_params == poseidon_params(SNARK_SCALAR_FIELD, 6, RoundsF, RoundsP, 5)

\* length of int.to_bytes(32, "little") in _SignatureScheme.to_bytes
IntBytes == 2

\* digest of hashlib.sha512 over a byte sequence, read as an integer: a
\* library primitive, represented by a fixed rolling digest of the bytes
RECURSIVE sha512(_, _)
sha512(data, h) ==
    IF Len(data) = 0 THEN h
    ELSE sha512(Tail(data), (h * 257 + data[1] + 1) % 65521)

\* hash_secret(k, M) for an FQ key and an int message 0 <= M < 256^IntBytes
hash_secret(k, M) ==
    LET data == FQ_to_bytes(k) \o int_to_bytes(M, IntBytes)
    IN  sha512(data, 0) % JUBJUB_L

\* PoseidonEdDSA.hash_public(R, A, M): as_scalar flattens the points
hash_public(R, A, M) ==
    poseidon(<<R.x.n, R.y.n, A.x.n, A.y.n, M>>, PoseidonEdDSA_params).value

\* Signature.__init__ with an int s
Signature(R, s) == [R |-> R, s |-> FQ1(s)]

SignedMessage(A, sig, msg) == [A |-> A, sig |-> sig, msg |-> msg]

\* the scalar S of sign before it is handed to Signature
sign_S(r, key, t) == (r + (key.n * t)) % JUBJUB_E

\* a key check that lets the subgroup order itself through
sign_rejects_above(key) == key.n > JUBJUB_L \/ key.n <= 0

\* the key check at the head of sign
sign_rejects(key) == key.n >= JUBJUB_L \/ key.n <= 0

\* PoseidonEdDSA.sign(msg, key) with the default B
sign(msg, key) ==
    IF sign_rejects(key) THEN Raise("RuntimeError")
    ELSE LET B == Point_generator
             A == Point_mult(B, key)
             M == msg
             r == hash_secret(key, M)
             R == Point_mult_int(B, r)
             t == hash_public(R, A, M)
             S == sign_S(r, key, t)
         IN  Return(SignedMessage(A, Signature(R, S), msg))

\* PoseidonEdDSA.verify(A, sig, msg) with the default B
verify(A, sig, msg) ==
    LET R == sig.R
        S == sig.s
        B == Point_generator
        lhs == Point_mult(B, S)
        M == msg
        rhs == Point_add(R, Point_mult_int(A, hash_public(R, A, M)))
    IN  Point_eq(lhs, rhs)

\* FQ.random(modulus) given the integer read from urandom
FQ_random(rand_n, modulus) == FQ(rand_n, modulus)

\* random_keypair given the integer read from urandom
random_keypair(rand_n) ==
    LET B == Point_generator
        k == FQ_random(rand_n, JUBJUB_L)
        A == Point_mult(B, k)
    IN  <<k, A>>

---------------------------------------------------------------------------
(* sig/eddsa.py : EDDSASign, DummyEDDSA.  A string is a sequence of          *)
(* one-character strings.                                                  *)

HexChars == <<"0", "1", "2", "3", "4", "5", "6", "7",
              "8", "9", "a", "b", "c", "d", "e", "f">>

HexValue(c) == (CHOOSE d \in 1..16 : HexChars[d] = c) - 1

\* int(s, 16) for a string of hex digits with the prefix "0x"
RECURSIVE int16_digits(_, _)
int16_digits(ds, acc) ==
    IF Len(ds) = 0 THEN acc
    ELSE int16_digits(Tail(ds), 16 * acc + HexValue(ds[1]))

int16(str) == int16_digits(SubSeq(str, 3, Len(str)), 0)

\* hex(v)[2:]
RECURSIVE hex_digits(_)
hex_digits(v) ==
    IF v < 16 THEN <<HexChars[v + 1]>>
    ELSE hex_digits(v \div 16) \o <<HexChars[(v % 16) + 1]>>

\* width of one zero-filled component of the signature string (zfill(64))
HexWidth == 2

RECURSIVE zfill(_, _)
zfill(str, width) == IF Len(str) >= width THEN str ELSE zfill(<<"0">> \o str, width)

\* poseidon_params(SNARK_SCALAR_FIELD, 2, 6, 53, b"poseidon", 5) of DummyEDDSA
DummyEDDSA_params == poseidon_params(SNARK_SCALAR_FIELD, 2, RoundsF, RoundsP + 1, 5)

\* EDDSASign.__init__: the private key as stored, or the failed assertion
EDDSASign_init(private_key) ==
    LET k == FQ1(int16(private_key))
    IN  IF FQ_eq(k, FQ_zero) THEN Raise("AssertionError") ELSE Return(k)

\* DummyEDDSA.serialise / EDDSASign.hash
DummyEDDSA_hash(data) == poseidon(<<data>>, DummyEDDSA_params).value

\* int(str, 16) of a string of hex digits
int16_plain(str) == int16_digits(str, 0)

\* len of a well-formed signature string (194 for zfill(64))
SigStrLen == 2 + 3 * HexWidth

\* EDDSASign.sig_str_to_signature: Signature([int, int], int), whose R keeps
\* the two ints and whose s becomes an FQ; or the failed assertion
sig_str_to_signature(sig) ==
    IF Len(sig) # SigStrLen THEN Raise("AssertionError")
    ELSE LET pure_hex == SubSeq(sig, 3, Len(sig))
         IN  Return([R |-> [x |-> int16_plain(SubSeq(pure_hex, 1, HexWidth)),
                            y |-> int16_plain(SubSeq(pure_hex, HexWidth + 1, 2 * HexWidth))],
                     s |-> FQ1(int16_plain(SubSeq(pure_hex, 2 * HexWidth + 1, Len(pure_hex))))])

\* a signature string whose components are not zero-filled
sig_str_nofill(signed_msg) ==
    <<"0", "x">> \o hex_digits(signed_msg.sig.R.x.n)
                 \o hex_digits(signed_msg.sig.R.y.n)
                 \o hex_digits(signed_msg.sig.s.n)

\* the printable ASCII characters, from code 32 to code 126 (code 96 by name)
Ascii ==
    <<" ", "!", "\"", "#", "$", "%", "&", "'", "(", ")", "*", "+",
       ",", "-", ".", "/", "0", "1", "2", "3", "4", "5", "6", "7",
       "8", "9", ":", ";", "<", "=", ">", "?", "@", "A", "B", "C",
       "D", "E", "F", "G", "H", "I", "J", "K", "L", "M", "N", "O",
       "P", "Q", "R", "S", "T", "U", "V", "W", "X", "Y", "Z", "[",
       "\\", "]", "^", "_", "grave", "a", "b", "c", "d", "e", "f", "g",
       "h", "i", "j", "k", "l", "m", "n", "o", "p", "q", "r", "s",
       "t", "u", "v", "w", "x", "y", "z", "{", "|", "}", "~" >>

\* ord(c)
Ord(c) == 31 + CHOOSE i \in 1..Len(Ascii) : Ascii[i] = c

\* str.upper()
upper(str) ==
    [i \in 1..Len(str) |->
        IF Ord(str[i]) \in 97..122 THEN Ascii[Ord(str[i]) - 32 - 31] ELSE str[i]]

\* str.startswith(prefix)
startswith(str, prefix) ==
    Len(str) >= Len(prefix) /\ SubSeq(str, 1, Len(prefix)) = prefix

\* str(v) of an int
RECURSIVE str_int(_)
str_int(v) ==
    IF v < 0 THEN <<"-">> \o str_int(-v)
    ELSE IF v < 10 THEN <<Ascii[v + 17]>>
    ELSE str_int(v \div 10) \o <<Ascii[(v % 10) + 17]>>

\* sep.join(strs)
RECURSIVE join(_, _)
join(sep, strs) ==
    IF Len(strs) = 0 THEN <<>>
    ELSE IF Len(strs) = 1 THEN strs[1]
    ELSE strs[1] \o sep \o join(sep, Tail(strs))

\* the characters urllib.parse.quote never encodes
always_safe(c) ==
    \/ Ord(c) \in 48..57
    \/ Ord(c) \in 65..90
    \/ Ord(c) \in 97..122
    \/ c \in {"_", ".", "-", "~"}

\* "%XX" with upper-case hex digits
percent(c) ==
    LET up(h) == upper(<<h>>)[1]
    IN  <<"%", up(HexChars[(Ord(c) \div 16) + 1]), up(HexChars[(Ord(c) % 16) + 1])>>

\* urllib.parse.quote(str) with its default safe="/"
RECURSIVE quote_default(_)
quote_default(str) ==
    IF Len(str) = 0 THEN <<>>
    ELSE (IF always_safe(str[1]) \/ str[1] = "/" THEN <<str[1]>>
          ELSE percent(str[1]))
         \o quote_default(Tail(str))

\* urllib.parse.quote(str, safe="")
RECURSIVE quote(_)
quote(str) ==
    IF Len(str) = 0 THEN <<>>
    ELSE (IF always_safe(str[1]) THEN <<str[1]>> ELSE percent(str[1]))
         \o quote(Tail(str))

\* json.dumps(payload, separators=(",", ":")) of None or of a dict of ints,
\* given as the sequence of its items
json_dumps(payload) ==
    IF payload.none THEN <<"n", "u", "l", "l">>
    ELSE <<"{">> \o join(<<",">>,
                       [i \in 1..Len(payload.items) |->
                           <<"\"">> \o payload.items[i].k \o <<"\"", ":">>
                                    \o str_int(payload.items[i].v)])
               \o <<"}">>

\* Request(method, host, path, params=..., payload=...)
Request(method, host, path, params, payload) ==
    [host |-> host, method |-> upper(method), params |-> params, path |-> path,
     payload |-> payload]

\* UrlEDDSASign.serialise of a helper built with the host self_host
UrlEDDSASign_serialise(self_host, request) ==
    LET method == request.method
        host   == IF self_host # <<>> THEN self_host ELSE request.host
        url    == quote(host \o request.path)
    IN  IF ~(\/ startswith(host, <<"h", "t", "t", "p", ":", "/", "/">>)
             \/ startswith(host, <<"h", "t", "t", "p", "s", ":", "/", "/">>))
        THEN Raise("AssertionError")
        ELSE IF method \in {<<"G", "E", "T">>, <<"D", "E", "L", "E", "T", "E">>}
        THEN IF request.params.none THEN Raise("AttributeError")
             ELSE Return(join(<<"&">>, <<method, url,
                      quote(join(<<"&">>,
                          [i \in 1..Len(request.params.items) |->
                              request.params.items[i].k \o <<"=">>
                                  \o quote(request.params.items[i].v)]))>>))
        ELSE IF method \in {<<"P", "O", "S", "T">>, <<"P", "U", "T">>}
        THEN Return(join(<<"&">>, <<method, url, quote(json_dumps(request.payload))>>))
        ELSE Raise("Exception")

\* poseidon_params(SNARK_SCALAR_FIELD, 12, 6, 53, b"poseidon", 5) of OrderEDDSASign
OrderEDDSASign_params == poseidon_params(SNARK_SCALAR_FIELD, 12, RoundsF, RoundsP + 1, 5)

\* order.get("taker", "0x0")
order_get_taker(order) ==
    IF "taker" \in DOMAIN order THEN order.taker ELSE <<"0", "x", "0">>

\* an order serialiser that puts the buy volume before the sell volume
OrderEDDSASign_serialise_swapped(order) ==
    << int16(order.exchange),
       order.storageId,
       order.accountId,
       order.sellToken.tokenId,
       order.buyToken.tokenId,
       order.buyToken.volume,
       order.sellToken.volume,
       order.validUntil,
       order.maxFeeBips,
       order.fillAmountBOrS,
       int16(order_get_taker(order)) >>

\* OrderEDDSASign.serialise: int(...) of each field, no check of its range
OrderEDDSASign_serialise(order) ==
    << int16(order.exchange),
       order.storageId,
       order.accountId,
       order.sellToken.tokenId,
       order.buyToken.tokenId,
       order.sellToken.volume,
       order.buyToken.volume,
       order.validUntil,
       order.maxFeeBips,
       order.fillAmountBOrS,
       int16(order_get_taker(order)) >>

\* EDDSASign.hash for OrderEDDSASign
OrderEDDSASign_hash(order) == poseidon(OrderEDDSASign_serialise(order), OrderEDDSASign_params)

\* the string built by EDDSASign.sign from the signed message
sig_str(signed_msg) ==
    <<"0", "x">> \o zfill(hex_digits(signed_msg.sig.R.x.n), HexWidth)
                 \o zfill(hex_digits(signed_msg.sig.R.y.n), HexWidth)
                 \o zfill(hex_digits(signed_msg.sig.s.n), HexWidth)

\* EDDSASign(private_key).sign(request) for DummyEDDSA: the exception of the
\* constructor or of sign, or the signature string (with the signed message
\* it was built from)
EDDSASign_sign(private_key, data) ==
    LET self == EDDSASign_init(private_key) IN
    IF self.raised # "" THEN self
    ELSE LET msg_hash   == DummyEDDSA_hash(data)
             signed_msg == sign(msg_hash, self.value)
         IN  IF signed_msg.raised # "" THEN signed_msg
             ELSE Return([str |-> sig_str(signed_msg.value), signed_msg |-> signed_msg.value])

\* EDDSASign.verify(msg, sig)
EDDSASign_verify(msg, sig) == verify(sig.A, sig.sig, sig.msg)

---------------------------------------------------------------------------
(* sig/ecdsa.py : class EIP712 and generate_amm_pool_join_EIP712_hash.  A   *)
(* keccak digest is the record of what was hashed: equal digests have      *)
(* equal preimages.                                                        *)

\* the class attribute exchange_domain before init_env has assigned it
NoDomain == [unset |-> TRUE]

\* eip712_structs.make_domain(name, version, chainId, verifyingContract)
make_domain(name, version, chainId, verifyingContract) ==
    [name |-> name, version |-> version, chainId |-> chainId,
     verifyingContract |-> verifyingContract]

\* struct.hash_struct()
hash_struct(struct) == [hash_struct |-> struct]

\* EIP712.hash_packed(domain_hash, data_hash): keccak of header + both
hash_packed(domain_hash, data_hash) ==
    [keccak |-> <<"1901", domain_hash, data_hash>>]

\* EIP712.init_env(chain_id=..., verifying_contract=...) with the default
\* name and version, on the class state cls
init_env(cls, chain_id, verifying_contract) ==
    [cls EXCEPT !.exchange_domain =
        make_domain("Loopring Protocol", "3.6.0", chain_id, verifying_contract)]

\* an init_amm_env that starts amm_pool_domains afresh
init_amm_env_fresh(cls, name, version, chain_id, verifying_contract) ==
    [cls EXCEPT !.amm_pool_domains =
        [a \in {verifying_contract} |->
            make_domain(name, version, chain_id, verifying_contract)]]

\* EIP712.init_amm_env(name, version, chain_id, verifying_contract)
init_amm_env(cls, name, version, chain_id, verifying_contract) ==
    [cls EXCEPT !.amm_pool_domains =
        [a \in DOMAIN cls.amm_pool_domains \cup {verifying_contract} |->
            IF a = verifying_contract
            THEN make_domain(name, version, chain_id, verifying_contract)
            ELSE cls.amm_pool_domains[a]]]

\* generate_amm_pool_join_EIP712_hash(payload) on the class state cls; the
\* struct PoolJoin takes every field of the payload but the pool address
generate_amm_pool_join_EIP712_hash(cls, payload) ==
    LET pool_join == [owner |-> payload.owner,
                      joinStorageIDs |-> payload.storageIds,
                      validUntil |-> payload.validUntil]
    IN  IF payload.poolAddress \notin DOMAIN cls.amm_pool_domains
        THEN Raise("KeyError")
        ELSE Return(hash_packed(hash_struct(cls.amm_pool_domains[payload.poolAddress]),
                                hash_struct(pool_join)))

---------------------------------------------------------------------------
(* The library is driven by a caller that performs one call at a time:     *)
(* pc names the call whose result op holds, "idle" between calls.          *)

\* largest message (an integer handed to sign) the caller signs
MaxMsg == 7

\* largest integer the caller reads from os.urandom
MaxUrandom == 24

\* largest payload value handed to the signing helper
MaxData == 1

\* largest scalar and widest window of the multiplications the caller compares
MaxScalar == 10

MaxWindow == 4

\* largest modulus of the square roots the caller takes
MaxPrime == 41

IsPrime(p) == p >= 2 /\ \A q \in 2..(p - 1) : p % q # 0

\* integers handed to the field: -MaxOperand..MaxOperand, and the same shifted
\* by the modulus
MaxOperand == 3

Operands(m) == {k + j * m : k \in (-MaxOperand)..MaxOperand, j \in {0, 1}}

FieldModuli == {SNARK_SCALAR_FIELD, JUBJUB_L}

\* self <name> on, for an int on
FQ_apply_int(name, self, on) ==
    CASE name = "add"  -> FQ_add_int(self, on)
      [] name = "sub"  -> FQ_sub_int(self, on)
      [] name = "rsub" -> FQ_rsub_int(self, on)
      [] name = "mul"  -> FQ_mul_int(self, on)
      [] name = "div"  -> FQ_div_int(self, on)
      [] name = "rdiv" -> FQ_rdiv_int(self, on)
      [] name = "exp"  -> FQ_exp_int(self, on)

\* self <name> other, for an FQ other
FQ_apply(name, self, other) ==
    CASE name = "add" -> FQ_add(self, other)
      [] name = "sub" -> FQ_sub(self, other)
      [] name = "mul" -> FQ_mul(self, other)
      [] name = "div" -> FQ_div(self, other)
      [] name = "exp" -> FQ_exp(self, other)

\* largest modulus whose elements are written as bytes
MaxModulus == 260

\* longest string handed to sig_str_to_signature
MaxSigLen == 9

\* strings of hex digits up to that length
SigStrings == UNION {[1..n -> {"0", "f"}] : n \in 0..MaxSigLen}

\* largest storage id of an order handed to the signer
MaxStorageId == 3

\* volumes of an order: inside the field, negative, and at or above the modulus
OrderVolumes == {-1, 0, 5, SNARK_SCALAR_FIELD, SNARK_SCALAR_FIELD + 5}

\* the orders handed to the signer, with and without a taker
Orders ==
    LET base(sid, vol, fill) ==
            [exchange |-> <<"0", "x", "2", "a">>, storageId |-> sid, accountId |-> 3,
             sellToken |-> [tokenId |-> 1, volume |-> vol],
             buyToken |-> [tokenId |-> 2, volume |-> 7],
             validUntil |-> 9, maxFeeBips |-> 6, fillAmountBOrS |-> fill]
    IN  UNION {{base(sid, vol, fill),
                base(sid, vol, fill) @@ [taker |-> <<"0", "x", "1", "f">>]} :
               sid \in 0..MaxStorageId, vol \in OrderVolumes, fill \in {0, 1}}

\* hosts of a request and of a helper (the empty host: none given)
RequestHosts == {<<>>, <<"h", "t", "t", "p", "s", ":", "/", "/", "a">>, <<"h", "t", "t", "p", ":", "/", "/", "a">>, <<"f", "t", "p", ":", "/", "/", "a">>, <<"a">>}

HelperHosts == {<<>>, <<"h", "t", "t", "p", "s", ":", "/", "/", "b">>}

RequestPaths == {<<"/", "p">>, <<"/", "p", " ", "q">>}

RequestMethods == {<<"g", "e", "t">>, <<"D", "E", "L", "E", "T", "E">>, <<"p", "o", "s", "t">>, <<"P", "u", "t">>, <<"p", "a", "t", "c", "h">>}

\* params of a request: None, or the items of the dict
RequestParams ==
    {[none |-> TRUE, items |-> <<>>],
     [none |-> FALSE, items |-> <<>>],
     [none |-> FALSE, items |-> <<[k |-> <<"a">>, v |-> <<"1">>]>>],
     [none |-> FALSE, items |-> <<[k |-> <<"a">>, v |-> <<"x", "/", "y">>], [k |-> <<"b">>, v |-> <<"c", "&", "d", "=", "e">>]>>]}

\* payload of a request: None, or the items of the dict
RequestPayloads ==
    {[none |-> TRUE, items |-> <<>>],
     [none |-> FALSE, items |-> <<>>],
     [none |-> FALSE, items |-> <<[k |-> <<"a">>, v |-> 1], [k |-> <<"b">>, v |-> -20]>>]}

\* longest input of mimc_hash and largest element of it
MaxMimcLen == 2

MaxMimcInput == 3

\* largest element of an input of the traced permutation
MaxPoseidonInput == 8

\* most windows of a Pedersen hash, and the names it is taken under
MaxWindows == 3

PedersenNames == {1}

\* largest y written into an encoding handed to decompress: above the field
\* modulus, below 2^SignBit
MaxEncodedY == 150

\* largest Z of the projective and extended points the caller converts
MaxZ == 3

\* moduli of the keys handed to sign: the default field, and the moduli
\* CurveOps.mult accepts
KeyModuli == {SNARK_SCALAR_FIELD, JUBJUB_E, JUBJUB_L}

Keys == UNION {{FQ(n, m) : n \in 0..(m - 1)} : m \in KeyModuli}

\* the affine points that satisfy the curve equation
ValidPoints ==
    {P \in {Point(FQ1(x), FQ1(y)) : x \in 0..(JUBJUB_Q - 1), y \in 0..(JUBJUB_Q - 1)} :
        Point_valid(P)}

\* hex strings "0x" + two digits
HexKeys == {<<"0", "x", HexChars[a], HexChars[b]>> : a \in 1..16, b \in 1..16}

Init ==
    /\ pc = "idle"
    /\ op = [kind |-> "idle"]
    /\ storage_ids = <<>>
    /\ issued = <<>>
    /\ exchange_domain_initialised = FALSE
    /\ EIP712 = [exchange_domain |-> NoDomain, amm_pool_domains |-> <<>>]
    /\ calls = [get_exchange_configurations |-> 0, init_env |-> 0]

\* PoseidonEdDSA.sign(msg, key)
Sign ==
    /\ pc = "idle"
    /\ \E key \in Keys, msg \in 0..MaxMsg :
          op' = [kind |-> "sign", key |-> key, msg |-> msg, result |-> sign(msg, key)]
    /\ pc' = "sign"
    /\ UNCHANGED <<storage_ids, issued, domain_vars>>

\* PoseidonEdDSA.verify(A, sig, msg) on the triple sign returned
Verify ==
    /\ pc = "sign"
    /\ op.result.raised = ""
    /\ LET sm == op.result.value IN
          op' = [kind |-> "verify", key |-> op.key, signed |-> sm,
                 result |-> verify(sm.A, sm.sig, sm.msg)]
    /\ pc' = "verify"
    /\ UNCHANGED <<storage_ids, issued, domain_vars>>

\* DummyEDDSA(private_key).sign({"data": data})
HelperSign ==
    /\ pc = "idle"
    /\ \E private_key \in HexKeys, data \in 0..MaxData :
          op' = [kind |-> "helper_sign", private_key |-> private_key, data |-> data,
                 result |-> EDDSASign_sign(private_key, data)]
    /\ pc' = "helper_sign"
    /\ UNCHANGED <<storage_ids, issued, domain_vars>>

\* EDDSASign.verify(msg, sig) on the signed message of the last helper call
HelperVerify ==
    /\ pc = "helper_sign"
    /\ op.result.raised = ""
    /\ \E msg \in 0..(JUBJUB_Q - 1) :
          op' = [kind |-> "helper_verify", msg |-> msg,
                 signed |-> op.result.value.signed_msg,
                 result |-> EDDSASign_verify(msg, op.result.value.signed_msg)]
    /\ pc' = "helper_verify"
    /\ UNCHANGED <<storage_ids, issued, domain_vars>>

\* PoseidonEdDSA.random_keypair()
RandomKeypair ==
    /\ pc = "idle"
    /\ \E rand_n \in 0..MaxUrandom :
          op' = [kind |-> "random_keypair", rand_n |-> rand_n,
                 result |-> random_keypair(rand_n)]
    /\ pc' = "random_keypair"
    /\ UNCHANGED <<storage_ids, issued, domain_vars>>

\* P.compress()
Compress ==
    /\ pc = "idle"
    /\ \E P \in ValidPoints :
          op' = [kind |-> "compress", P |-> P, result |-> Point_compress(P)]
    /\ pc' = "compress"
    /\ UNCHANGED <<storage_ids, issued, domain_vars>>

\* Point.decompress(b) on the bytes of the last compress
Decompress ==
    /\ pc = "compress"
    /\ op' = [kind |-> "decompress", P |-> op.P, bytes |-> op.result,
              result |-> Point_decompress(op.result)]
    /\ pc' = "decompress"
    /\ UNCHANGED <<storage_ids, issued, domain_vars>>

\* P.as_mont()
AsMont ==
    /\ pc = "idle"
    /\ \E P \in ValidPoints :
          op' = [kind |-> "as_mont", P |-> P, result |-> Point_as_mont(P)]
    /\ pc' = "as_mont"
    /\ UNCHANGED <<storage_ids, issued, domain_vars>>

\* MontPoint.as_point() on the result of the last as_mont
MontAsPoint ==
    /\ pc = "as_mont"
    /\ op' = [kind |-> "mont_as_point", P |-> op.P, mont |-> op.result,
              result |-> MontPoint_as_point(op.result)]
    /\ pc' = "mont_as_point"
    /\ UNCHANGED <<storage_ids, issued, domain_vars>>

\* P.as_etec() and P.as_proj()
AsEtec ==
    /\ pc = "idle"
    /\ \E P \in ValidPoints :
          op' = [kind |-> "as_etec", P |-> P, result |-> Point_as_etec(P)]
    /\ pc' = "as_etec"
    /\ UNCHANGED <<storage_ids, issued, domain_vars>>

AsProj ==
    /\ pc = "idle"
    /\ \E P \in ValidPoints :
          op' = [kind |-> "as_proj", P |-> P, result |-> Point_as_proj(P)]
    /\ pc' = "as_proj"
    /\ UNCHANGED <<storage_ids, issued, domain_vars>>

\* as_point() on the result of the last as_etec / as_proj
EtecAsPoint ==
    /\ pc = "as_etec"
    /\ op' = [kind |-> "etec_as_point", P |-> op.P, result |-> EtecPoint_as_point(op.result)]
    /\ pc' = "etec_as_point"
    /\ UNCHANGED <<storage_ids, issued, domain_vars>>

ProjAsPoint ==
    /\ pc = "as_proj"
    /\ op' = [kind |-> "proj_as_point", P |-> op.P, result |-> ProjPoint_as_point(op.result)]
    /\ pc' = "proj_as_point"
    /\ UNCHANGED <<storage_ids, issued, domain_vars>>

\* as_point() then as_proj() on a projective point (x*z, y*z, z), z # 0
ProjRoundTrip ==
    /\ pc = "idle"
    /\ \E P \in ValidPoints, z \in 1..MaxZ :
          LET proj == ProjPoint(FQ_mul_int(P.x, z), FQ_mul_int(P.y, z), FQ1(z))
              aff  == ProjPoint_as_point(proj)
          IN  op' = [kind |-> "proj_round_trip", P |-> P, proj |-> proj, aff |-> aff,
                     result |-> Point_as_proj(aff.value)]
    /\ pc' = "proj_round_trip"
    /\ UNCHANGED <<storage_ids, issued, domain_vars>>

\* as_point() then as_etec() on an extended point (x*z, y*z, x*y*z, z), z # 0
EtecRoundTrip ==
    /\ pc = "idle"
    /\ \E P \in ValidPoints, z \in 1..MaxZ :
          LET etec == EtecPoint(FQ_mul_int(P.x, z), FQ_mul_int(P.y, z),
                                FQ_mul_int(FQ_mul(P.x, P.y), z), FQ1(z))
              aff  == EtecPoint_as_point(etec)
          IN  op' = [kind |-> "etec_round_trip", P |-> P, etec |-> etec, aff |-> aff,
                     result |-> Point_as_etec(aff)]
    /\ pc' = "etec_round_trip"
    /\ UNCHANGED <<storage_ids, issued, domain_vars>>

\* P.mult_wnaf(k, w)
MultWnaf ==
    /\ pc = "idle"
    /\ \E P \in ValidPoints, k \in 0..MaxScalar, w \in 2..MaxWindow :
          op' = [kind |-> "mult_wnaf", P |-> P, k |-> k, window |-> w,
                 digits |-> wNAF(k, w), result |-> Point_mult_wnaf(P, k, w)]
    /\ pc' = "mult_wnaf"
    /\ UNCHANGED <<storage_ids, issued, domain_vars>>

\* P.mult(k) for the point and scalar of the last mult_wnaf
Mult ==
    /\ pc = "mult_wnaf"
    /\ op' = [kind |-> "mult", P |-> op.P, k |-> op.k, window |-> op.window,
              digits |-> op.digits, wnaf |-> op.result,
              result |-> Point_mult_int(op.P, op.k)]
    /\ pc' = "mult"
    /\ UNCHANGED <<storage_ids, issued, domain_vars>>

\* FQ(a, p).sqrt() for a prime p
Sqrt ==
    /\ pc = "idle"
    /\ \E p \in {q \in 2..MaxPrime : IsPrime(q)} :
       \E a \in 0..(p - 1) :
          op' = [kind |-> "sqrt", p |-> p, a |-> a,
                 root |-> square_root_mod_prime(a, p),
                 result |-> FQ_sqrt(FQ(a, p))]
    /\ pc' = "sqrt"
    /\ UNCHANGED <<storage_ids, issued, domain_vars>>

\* FQ(raw, m) <name> on
FieldOpInt ==
    /\ pc = "idle"
    /\ \E m \in FieldModuli :
       \E raw \in Operands(m), on \in Operands(m) :
       \E name \in {"add", "sub", "rsub", "mul", "div", "rdiv", "exp"} :
          op' = [kind |-> "field_int", name |-> name, raw |-> raw, m |-> m,
                 self |-> FQ(raw, m), on |-> on,
                 result |-> FQ_apply_int(name, FQ(raw, m), on)]
    /\ pc' = "field_int"
    /\ UNCHANGED <<storage_ids, issued, domain_vars>>

\* FQ(raw, m) <name> FQ(on, m2)
FieldOpFQ ==
    /\ pc = "idle"
    /\ \E m \in FieldModuli, m2 \in FieldModuli :
       \E raw \in Operands(m), on \in Operands(m2) :
       \E name \in {"add", "sub", "mul", "div", "exp"} :
          op' = [kind |-> "field_fq", name |-> name, raw |-> raw, m |-> m,
                 self |-> FQ(raw, m), other |-> FQ(on, m2),
                 result |-> FQ_apply(name, FQ(raw, m), FQ(on, m2))]
    /\ pc' = "field_fq"
    /\ UNCHANGED <<storage_ids, issued, domain_vars>>

\* -FQ(raw, m) and FQ(raw, m).inv()
FieldUnary ==
    /\ pc = "idle"
    /\ \E m \in FieldModuli :
       \E raw \in Operands(m) :
       \E name \in {"neg", "inv"} :
          op' = [kind |-> "field_unary", name |-> name, raw |-> raw, m |-> m,
                 self |-> FQ(raw, m),
                 result |-> IF name = "neg" THEN FQ_neg(FQ(raw, m)) ELSE FQ_inv(FQ(raw, m))]
    /\ pc' = "field_unary"
    /\ UNCHANGED <<storage_ids, issued, domain_vars>>

\* FQ(raw, m) == FQ(on, m2)
Compare ==
    /\ pc = "idle"
    /\ \E m \in FieldModuli, m2 \in FieldModuli :
       \E raw \in Operands(m), on \in Operands(m2) :
          op' = [kind |-> "eq", self |-> FQ(raw, m), other |-> FQ(on, m2),
                 result |-> FQ_eq_outcome(FQ(raw, m), FQ(on, m2))]
    /\ pc' = "eq"
    /\ UNCHANGED <<storage_ids, issued, domain_vars>>

\* FQ(n, m).to_bytes() for the smallest, the second and the largest value of m
ToBytes ==
    /\ pc = "idle"
    /\ \E m \in 2..MaxModulus :
       \E n \in {0, 1, m - 1} :
          op' = [kind |-> "to_bytes", m |-> m, n |-> n,
                 bytes |-> FQ_to_bytes(FQ(n, m))]
    /\ pc' = "to_bytes"
    /\ UNCHANGED <<storage_ids, issued, domain_vars>>

\* sig_str_to_signature on the string of the last helper call
ParseOwn ==
    /\ pc = "helper_sign"
    /\ op.result.raised = ""
    /\ op' = [kind |-> "parse_own", sig |-> op.result.value.str,
              signed_msg |-> op.result.value.signed_msg,
              result |-> sig_str_to_signature(op.result.value.str)]
    /\ pc' = "parse_own"
    /\ UNCHANGED <<storage_ids, issued, domain_vars>>

\* sig_str_to_signature on a string of the caller
ParseSig ==
    /\ pc = "idle"
    /\ \E sig \in SigStrings :
          op' = [kind |-> "parse_sig", sig |-> sig,
                 result |-> sig_str_to_signature(sig)]
    /\ pc' = "parse_sig"
    /\ UNCHANGED <<storage_ids, issued, domain_vars>>

\* OrderEDDSASign.hash(order): the serialised vector and its Poseidon hash
OrderHash ==
    /\ pc = "idle"
    /\ \E order \in Orders :
          op' = [kind |-> "order_hash", order |-> order,
                 vector |-> OrderEDDSASign_serialise(order),
                 result |-> OrderEDDSASign_hash(order)]
    /\ pc' = "order_hash"
    /\ UNCHANGED <<storage_ids, issued, domain_vars>>

\* UrlEDDSASign(key, host=self_host).serialise(Request(method, host, path, ...))
UrlSerialise ==
    /\ pc = "idle"
    /\ \E self_host \in HelperHosts, host \in RequestHosts, path \in RequestPaths :
       \E method \in RequestMethods, params \in RequestParams, payload \in RequestPayloads :
          LET request == Request(method, host, path, params, payload) IN
          op' = [kind |-> "url_serialise", self_host |-> self_host, request |-> request,
                 result |-> UrlEDDSASign_serialise(self_host, request)]
    /\ pc' = "url_serialise"
    /\ UNCHANGED <<storage_ids, issued, domain_vars>>

\* mimc_hash(x, k) with the default seed, modulus, exponent and rounds
MimcHash ==
    /\ pc = "idle"
    /\ \E n \in 0..MaxMimcLen :
       \E x \in [1..n -> 0..MaxMimcInput], k \in 0..1 :
          op' = [kind |-> "mimc_hash", x |-> x, k |-> k,
                 chain |-> mimc_hash_chain(x, k, DEFAULT_SEED, SNARK_SCALAR_FIELD,
                                           DEFAULT_EXPONENT, DEFAULT_ROUNDS),
                 result |-> mimc_hash(x, k, DEFAULT_SEED, SNARK_SCALAR_FIELD,
                                      DEFAULT_EXPONENT, DEFAULT_ROUNDS)]
    /\ pc' = "mimc_hash"
    /\ UNCHANGED <<storage_ids, issued, domain_vars>>

\* poseidon(inputs, params, trace=True) under the parameters of DummyEDDSA
\* (t = 2) and of PoseidonEdDSA.hash_public (t = 6)
PoseidonTrace ==
    /\ pc = "idle"
    /\ \E params \in {DummyEDDSA_params, PoseidonEdDSA_params} :
       \E n \in 1..2 :
       \E inputs \in [1..n -> 0..MaxPoseidonInput] :
          op' = [kind |-> "poseidon", params |-> params, inputs |-> inputs,
                 trace |-> IF n < params.t THEN poseidon_trace(inputs, params) ELSE <<>>,
                 result |-> poseidon(inputs, params)]
    /\ pc' = "poseidon"
    /\ UNCHANGED <<storage_ids, issued, domain_vars>>

\* pedersen_hash_windows(name, windows) for 3-bit windows
PedersenHash ==
    /\ pc = "idle"
    /\ \E name \in PedersenNames, n \in 1..MaxWindows :
       \E windows \in [1..n -> 0..7] :
          op' = [kind |-> "pedersen", name |-> name, windows |-> windows,
                 result |-> pedersen_hash_windows(name, windows)]
    /\ pc' = "pedersen"
    /\ UNCHANGED <<storage_ids, issued, domain_vars>>

\* P.valid(), P * JUBJUB_L and P * JUBJUB_C for a point P of all_loworder_points
LowOrder ==
    /\ pc = "idle"
    /\ \E i \in 1..Len(all_loworder_points) :
          LET P == all_loworder_points[i] IN
          op' = [kind |-> "loworder", i |-> i, P |-> P, valid |-> Point_valid(P),
                 timesL |-> Point_mult_int(P, JUBJUB_L),
                 timesC |-> Point_mult_int(P, JUBJUB_C)]
    /\ pc' = "loworder"
    /\ UNCHANGED <<storage_ids, issued, domain_vars>>

\* as_etec() on the projective point of the last round trip
ProjAsEtec ==
    /\ pc = "proj_round_trip"
    /\ op' = [kind |-> "proj_as_etec", P |-> op.P, proj |-> op.proj,
              result |-> ProjPoint_as_etec(op.proj)]
    /\ pc' = "proj_as_etec"
    /\ UNCHANGED <<storage_ids, issued, domain_vars>>

\* P.as_etec() and Q.as_etec(), their sum, the double and the negation of
\* the first
EtecArith ==
    /\ pc = "idle"
    /\ \E P \in ValidPoints, Q \in ValidPoints :
          LET a == Point_as_etec(P)
              b == Point_as_etec(Q)
          IN  op' = [kind |-> "etec_arith", P |-> P, Q |-> Q, a |-> a, b |-> b,
                     sum |-> EtecPoint_add(a, b), double |-> EtecPoint_double(a),
                     neg |-> EtecPoint_neg(a)]
    /\ pc' = "etec_arith"
    /\ UNCHANGED <<storage_ids, issued, domain_vars>>

\* Point.decompress(b) on the little-endian bytes of y + bit * 2^SignBit,
\* then compress() of the point when there is one
DecompressBytes ==
    /\ pc = "idle"
    /\ \E y \in 0..MaxEncodedY, bit \in {0, 1} :
          LET b == int_to_bytes(y + bit * pow2(SignBit), CompressedLen)
              p == Point_decompress(b)
          IN  op' = [kind |-> "decompress_bytes", bytes |-> b, result |-> p,
                     again |-> IF p.raised = "" THEN Point_compress(p.value) ELSE <<>>]
    /\ pc' = "decompress_bytes"
    /\ UNCHANGED <<storage_ids, issued, domain_vars>>

\* the caller drops the result and is ready for the next call
Done ==
    /\ pc # "idle"
    /\ pc' = "idle"
    /\ UNCHANGED <<storage_ids, issued, domain_vars>>
    /\ op' = [kind |-> "idle"]

Next ==
    \/ Sign
    \/ Verify
    \/ HelperSign
    \/ HelperVerify
    \/ RandomKeypair
    \/ Compress
    \/ Decompress
    \/ AsMont
    \/ MontAsPoint
    \/ AsEtec
    \/ AsProj
    \/ EtecAsPoint
    \/ ProjAsPoint
    \/ ProjRoundTrip
    \/ EtecRoundTrip
    \/ MultWnaf
    \/ Mult
    \/ Sqrt
    \/ FieldOpInt
    \/ FieldOpFQ
    \/ FieldUnary
    \/ Compare
    \/ ToBytes
    \/ ParseOwn
    \/ ParseSig
    \/ OrderHash
    \/ UrlSerialise
    \/ MimcHash
    \/ PoseidonTrace
    \/ PedersenHash
    \/ LowOrder
    \/ ProjAsEtec
    \/ EtecArith
    \/ DecompressBytes
    \/ Done

Spec == Init /\ [][Next]_vars

---------------------------------------------------------------------------
(* client.py: the storage ids of a Client. storage_ids is the dict of that  *)
(* name, empty until the token configuration is fetched; issued is the     *)
(* list of (kind, token, storage id) of the requests signed so far. pc and  *)
(* op hold the last call and the exception it raised, if any.              *)

\* token ids of the exchange
Tokens == {0, 1}

\* most requests signed in one run
MaxIssued == 4

\* IntSig.MAX_ORDER_ID, the limit asserted by submit_order, at the scale of
\* MaxIssued
MAX_ORDER_ID == 7

\* Client.get_token_configurations: every token starts again at 0 and 1
GetTokenConfigurations ==
    /\ storage_ids' = [t \in Tokens |-> [offchainId |-> 0, orderId |-> 1]]
    /\ pc' = "get_token_configurations"
    /\ op' = [kind |-> "get_token_configurations", raised |-> ""]
    /\ UNCHANGED <<issued, domain_vars>>

\* the ids the exchange answers with: the first ones after those it has seen
next_storage_id(token) ==
    LET off == {issued[i].id : i \in {j \in 1..Len(issued) :
                    issued[j].token = token /\ issued[j].kind # "order"}}
        ord == {issued[i].id : i \in {j \in 1..Len(issued) :
                    issued[j].token = token /\ issued[j].kind = "order"}}
        after(ids, first) == IF ids = {} THEN first
                             ELSE 2 + CHOOSE m \in ids : \A n \in ids : n <= m
    IN  [offchainId |-> after(off, 0), orderId |-> after(ord, 1)]

\* Client.get_next_storage_id(token): stores the answer of the exchange
GetNextStorageId ==
    /\ \E token \in Tokens :
          /\ storage_ids' = [t \in DOMAIN storage_ids \cup {token} |->
                                IF t = token THEN next_storage_id(token) ELSE storage_ids[t]]
          /\ op' = [kind |-> "get_next_storage_id", token |-> token, raised |-> ""]
    /\ pc' = "get_next_storage_id"
    /\ UNCHANGED <<issued, domain_vars>>

\* a call that reads storage_ids[token.id][counter], adds 2 to it and signs a
\* request with the value read; KeyError when the token has no entry
take_storage_id(kind, counter, token) ==
    IF token \notin DOMAIN storage_ids
    THEN /\ op' = [kind |-> kind, token |-> token, raised |-> "KeyError"]
         /\ UNCHANGED <<storage_ids, issued>>
    ELSE /\ storage_ids' = [storage_ids EXCEPT ![token][counter] = @ + 2]
         /\ issued' = Append(issued, [kind |-> kind, token |-> token,
                                       id |-> storage_ids[token][counter]])
         /\ op' = [kind |-> kind, token |-> token, raised |-> ""]

\* Client.submit_internal_transfer(token=...)
SubmitInternalTransfer ==
    /\ Len(issued) < MaxIssued
    /\ \E token \in Tokens : take_storage_id("transfer", "offchainId", token)
    /\ pc' = "submit_internal_transfer"
    /\ UNCHANGED domain_vars

\* Client.submit_offchain_withdrawal_request(token=...)
SubmitOffchainWithdrawalRequest ==
    /\ Len(issued) < MaxIssued
    /\ \E token \in Tokens : take_storage_id("withdrawal", "offchainId", token)
    /\ pc' = "submit_offchain_withdrawal_request"
    /\ UNCHANGED domain_vars

\* Client.submit_order(...): the order id of the sell token, asserted below
\* MAX_ORDER_ID before it is advanced
SubmitOrder ==
    /\ Len(issued) < MaxIssued
    /\ \E token \in Tokens :
          IF token \in DOMAIN storage_ids /\ ~(storage_ids[token].orderId < MAX_ORDER_ID)
          THEN /\ op' = [kind |-> "order", token |-> token, raised |-> "AssertionError"]
               /\ UNCHANGED <<storage_ids, issued>>
          ELSE take_storage_id("order", "orderId", token)
    /\ pc' = "submit_order"
    /\ UNCHANGED domain_vars

\* Client.join_amm_pool(join_tokens=...): the offchain ids of the two pooled
\* tokens go into one request and both are advanced
JoinAmmPool ==
    /\ Len(issued) + 2 <= MaxIssued
    /\ \E t0 \in Tokens : \E t1 \in Tokens \ {t0} :
          IF ~({t0, t1} \subseteq DOMAIN storage_ids)
          THEN /\ op' = [kind |-> "join", token |-> t0, raised |-> "KeyError"]
               /\ UNCHANGED <<storage_ids, issued>>
          ELSE /\ storage_ids' = [storage_ids EXCEPT ![t0].offchainId = @ + 2,
                                                     ![t1].offchainId = @ + 2]
               /\ issued' = issued \o
                      <<[kind |-> "join", token |-> t0, id |-> storage_ids[t0].offchainId],
                        [kind |-> "join", token |-> t1, id |-> storage_ids[t1].offchainId]>>
               /\ op' = [kind |-> "join", token |-> t0, raised |-> ""]
    /\ pc' = "join_amm_pool"
    /\ UNCHANGED domain_vars

ClientNext ==
    \/ GetTokenConfigurations
    \/ GetNextStorageId
    \/ SubmitInternalTransfer
    \/ SubmitOffchainWithdrawalRequest
    \/ SubmitOrder
    \/ JoinAmmPool

ClientSpec == Init /\ [][ClientNext]_vars

---------------------------------------------------------------------------
(* CurveOps.mult of ethsnarks/jubjub.py, one iteration of its while loop per
   step.  The counter i of the loop is written and never read; it is left out
   of the state. *)

\* most negative scalar tried is -MaxNegScalar
MaxNegScalar == 2

\* points of the subgroup of order JUBJUB_L, the ones signing multiplies
MultPoints == {Point_mult_int(Point_generator, k) : k \in 1..3}

MultModuli == {SNARK_SCALAR_FIELD, JUBJUB_E, JUBJUB_L, FR_ORDER}

\* the points the loop can hold: the subgroup the points of MultPoints generate
MultReach == {Point_mult_int(Point_generator, k) : k \in 0..(JUBJUB_L - 1)}

\* Point.add on those points, computed once
MultAdd == [a \in MultReach, p \in MultReach |-> Point_add(a, p)]

\* point.mult(scalar) for an int: p = self, a = infinity, then the loop
MultCallInt ==
    /\ pc = "idle"
    /\ \E self \in MultPoints, scalar \in (-MaxNegScalar)..MaxScalar :
          op' = [kind |-> "mult_loop", self |-> self, p |-> self,
                 a |-> Point_infinity, scalar |-> scalar]
    /\ pc' = "mult_loop"
    /\ UNCHANGED <<storage_ids, issued, domain_vars>>

\* point.mult(scalar) for an FQ: the ValueError on a modulus that is not
\* allowed, else scalar = scalar.n and the loop
MultCallFQ ==
    /\ pc = "idle"
    /\ \E self \in MultPoints, m \in MultModuli, n \in 0..MaxScalar :
          LET scalar == FQ(n, m) IN
          IF scalar.m \notin {SNARK_SCALAR_FIELD, JUBJUB_E, JUBJUB_L}
          THEN /\ op' = [kind |-> "mult_done", self |-> self, result |-> None]
               /\ pc' = "mult_done"
          ELSE /\ op' = [kind |-> "mult_loop", self |-> self, p |-> self,
                         a |-> Point_infinity, scalar |-> scalar.n]
               /\ pc' = "mult_loop"
    /\ UNCHANGED <<storage_ids, issued, domain_vars>>

\* one iteration of "while scalar != 0": scalar & 1 is scalar % 2,
\* p.double() is p.add(p) and scalar //= 2 rounds towards minus infinity
MultStep ==
    /\ pc = "mult_loop"
    /\ op.scalar # 0
    /\ op' = [op EXCEPT !.a = IF op.scalar % 2 # 0 THEN MultAdd[op.a, op.p] ELSE op.a,
                        !.p = MultAdd[op.p, op.p],
                        !.scalar = op.scalar \div 2]
    /\ UNCHANGED <<pc, storage_ids, issued, domain_vars>>

\* the loop ends at scalar = 0: return a
MultReturn ==
    /\ pc = "mult_loop"
    /\ op.scalar = 0
    /\ op' = [kind |-> "mult_done", self |-> op.self, result |-> op.a]
    /\ pc' = "mult_done"
    /\ UNCHANGED <<storage_ids, issued, domain_vars>>

\* the caller takes the returned point
MultDone ==
    /\ pc = "mult_done"
    /\ pc' = "idle"
    /\ op' = [kind |-> "idle"]
    /\ UNCHANGED <<storage_ids, issued, domain_vars>>

MultNext ==
    \/ MultCallInt
    \/ MultCallFQ
    \/ MultStep
    \/ MultReturn
    \/ MultDone

\* the call is synchronous: a loop iteration that can run does, and so does
\* the return
MultSpec ==
    /\ Init
    /\ [][MultNext]_vars
    /\ WF_vars(MultStep)
    /\ WF_vars(MultReturn)

---------------------------------------------------------------------------
(* client.py and sig/ecdsa.py: the EIP-712 domain separators.               *)
(* exchange_domain_initialised is the field of that name of the Client,    *)
(* EIP712 holds the class attributes exchange_domain and amm_pool_domains, *)
(* calls counts the calls of get_exchange_configurations and of            *)
(* EIP712.init_env made so far.                                            *)

\* most calls of get_exchange_configurations, most pools in one answer
MaxCalls == 3

MaxPools == 2

\* Client.chain_id of a client that is not on the main net
chain_id == 5

\* what the exchange answers with
ExchangeChainIds == {1, 5}

ExchangeAddresses == {"0xE"}

\* the pools of the exchange; no pool has the address "0xC"
PoolAddresses == {"0xA", "0xB"}

Pools == [address : PoolAddresses, name : {"AMM-1", "AMM-2"}, version : {"1.0.0"}]

PoolAnswers == UNION {[1..n -> Pools] : n \in 1..MaxPools}

JoinPayloads ==
    [poolAddress : PoolAddresses \cup {"0xC"}, owner : {"0xO"}, storageIds : {<<0, 0>>, <<2, 0>>},
     validUntil : {1}]

\* Client.get_exchange_configurations(): init_env unless the flag is set,
\* and the flag is assigned False afterwards
GetExchangeConfigurations ==
    /\ calls.get_exchange_configurations < MaxCalls
    /\ \E id \in ExchangeChainIds, address \in ExchangeAddresses :
          IF ~exchange_domain_initialised
          THEN /\ EIP712' = init_env(EIP712, id, address)
               /\ exchange_domain_initialised' = FALSE
               /\ calls' = [get_exchange_configurations |-> calls.get_exchange_configurations + 1,
                            init_env |-> calls.init_env + 1]
               /\ op' = [kind |-> "get_exchange_configurations", chain_id |-> id,
                         address |-> address, init_env |-> TRUE]
          ELSE /\ calls' = [calls EXCEPT !.get_exchange_configurations = @ + 1]
               /\ op' = [kind |-> "get_exchange_configurations", chain_id |-> id,
                         address |-> address, init_env |-> FALSE]
               /\ UNCHANGED <<EIP712, exchange_domain_initialised>>
    /\ pc' = "get_exchange_configurations"
    /\ UNCHANGED <<storage_ids, issued>>

\* the loop of get_amm_pool_configurations over the pools of the answer
RECURSIVE init_pools(_, _, _)
init_pools(cls, pools, i) ==
    IF i > Len(pools) THEN cls
    ELSE init_pools(init_amm_env(cls, pools[i].name, pools[i].version, chain_id,
                                 pools[i].address),
                    pools, i + 1)

\* Client.get_amm_pool_configurations(): init_amm_env for every pool of the
\* answer; before is the class state the call started from
GetAmmPoolConfigurations ==
    /\ \E pools \in PoolAnswers :
          /\ EIP712' = init_pools(EIP712, pools, 1)
          /\ op' = [kind |-> "get_amm_pool_configurations", pools |-> pools,
                    before |-> EIP712]
    /\ pc' = "get_amm_pool_configurations"
    /\ UNCHANGED <<storage_ids, issued, exchange_domain_initialised, calls>>

\* generate_amm_pool_join_EIP712_hash(payload)
GenerateAmmPoolJoinHash ==
    /\ \E payload \in JoinPayloads :
          op' = [kind |-> "generate_amm_pool_join_EIP712_hash", payload |-> payload,
                 result |-> generate_amm_pool_join_EIP712_hash(EIP712, payload)]
    /\ pc' = "generate_amm_pool_join_EIP712_hash"
    /\ UNCHANGED <<storage_ids, issued, domain_vars>>

DomainNext ==
    \/ GetExchangeConfigurations
    \/ GetAmmPoolConfigurations
    \/ GenerateAmmPoolJoinHash

DomainSpec == Init /\ [][DomainNext]_vars

---------------------------------------------------------------------------
(* Properties *)

\* C1: for every key 1 <= k < JUBJUB_L and every message, verify returns
\* true on the triple (A, sig, msg) that sign returned, whatever value the
\* scalar s took before it was stored in the Signature as a field element.
C1_VerifyAcceptsOwnSignature ==
    pc = "verify" => op.result = TRUE

\* C2: the scalar s of every signature sign returns equals (r + k*t)
\* reduced modulo the subgroup order JUBJUB_L, so 0 <= s < JUBJUB_L, with
\* r = hash_secret(k, M) and t = hash_public(R, A, M).
C2_ScalarReducedModL ==
    (pc = "sign" /\ op.result.raised = "") =>
        LET sm == op.result.value
            r  == hash_secret(op.key, op.msg)
            t  == hash_public(sm.sig.R, sm.A, op.msg)
        IN  /\ sm.sig.s.n = (r + op.key.n * t) % JUBJUB_L
            /\ 0 <= sm.sig.s.n
            /\ sm.sig.s.n < JUBJUB_L

\* C3: EDDSASign.verify(M2, signed) returns false when signed is the signed
\* message of another message M1 # M2.
C3_VerifyRejectsOtherMessage ==
    (pc = "helper_verify" /\ op.msg # op.signed.msg) => op.result = FALSE

\* C4: for every hex private key whose integer value is 0 or >= JUBJUB_L,
\* construction of the signing helper followed by sign fails.
C4_HelperRejectsOutOfRangeKey ==
    (pc = "helper_sign" /\
     (int16(op.private_key) = 0 \/ int16(op.private_key) >= JUBJUB_L)) =>
        op.result.raised # ""

\* C5: sign raises for every key whose value is 0 or >= JUBJUB_L and returns
\* no signature; for every key in [1, JUBJUB_L) it returns a signed message
\* for that message.
C5_SignRejectsExactlyOutOfRange ==
    pc = "sign" =>
        IF op.key.n = 0 \/ op.key.n >= JUBJUB_L
        THEN op.result = Raise("RuntimeError")
        ELSE /\ op.result.raised = ""
             /\ op.result.value.msg = op.msg
             /\ op.result.value.A = Point_mult_int(Point_generator, op.key.n)

\* C5 witness: the smallest key that is not below the subgroup order was rejected
C5_Witness ==
    pc = "sign" /\ op.key.n = JUBJUB_L /\ op.result.raised = "RuntimeError"

\* C6: random_keypair always returns (k, A) with 1 <= k < JUBJUB_L and
\* A = B*k, so that sign accepts every generated key.
C6_RandomKeyInRange ==
    pc = "random_keypair" =>
        LET k == op.result[1]
            A == op.result[2]
        IN  /\ 1 <= k.n
            /\ k.n < JUBJUB_L
            /\ A = Point_mult_int(Point_generator, k.n)
            /\ ~sign_rejects(k)

\* C8: for every affine point P on the curve, decompress(compress(P)) = P,
\* also when x = 0 and when x is negative (sign bit set).
C8_CompressRoundTrip ==
    pc = "decompress" => op.result = Return(op.P)

\* C8 witness: a point with negative x went through compress and decompress
C8_Witness ==
    /\ pc = "decompress"
    /\ is_negative(op.P.x)
    /\ op.bytes[CompressedLen] >= 128
    /\ op.result = Return(op.P)

\* C9: for every valid point P, P.as_mont().as_point() = P, including the
\* points y = 1 (the identity) and x = 0.
C9_MontRoundTrip ==
    pc = "mont_as_point" => op.result = op.P

\* (X, Y, Z) denotes the affine point P: X = x*Z, Y = y*Z, Z # 0
ProjDenotes(proj, P) ==
    /\ proj.z.n # 0
    /\ FQ_mul(P.x, proj.z) = proj.x
    /\ FQ_mul(P.y, proj.z) = proj.y

\* C10: P.as_etec().as_point() = P and P.as_proj().as_point() = P for every
\* valid affine P; a projective or extended point with Z # 0 converted to
\* affine and back denotes the same affine point as before.
C10_EtecProjRoundTrip ==
    /\ pc = "etec_as_point" => op.result = op.P
    /\ pc = "proj_as_point" => op.result = Return(op.P)
    /\ pc = "proj_round_trip" =>
          /\ ProjDenotes(op.proj, op.P)
          /\ op.aff.raised = ""
          /\ ProjDenotes(op.result, op.P)
    /\ pc = "etec_round_trip" =>
          /\ ProjDenotes(op.etec, op.P)
          /\ ProjDenotes(op.result, op.P)

\* C10 witness: an extended point with Z = 2 went to affine and back
C10_Witness ==
    /\ pc = "etec_round_trip"
    /\ op.etec.z.n = 2
    /\ op.P.x.n # 0
    /\ ProjDenotes(op.result, op.P)

IsResidue(a, p) == \E r \in 0..(p - 1) : (r * r) % p = a

\* C12: for every prime p and every a in [0, p): if a is a quadratic residue
\* (or 0), sqrt returns r with r*r = a mod p in whichever branch is taken; if
\* the Jacobi symbol of a is -1 (a is not a square), sqrt raises
\* SquareRootError and returns no value.
C12_SqrtOfResidue ==
    pc = "sqrt" =>
        /\ (op.p >= 3 /\ op.a # 0) => (jacobi(op.a, op.p) = -1 <=> ~IsResidue(op.a, op.p))
        /\ IF IsResidue(op.a, op.p)
           THEN /\ op.root.raised = ""
                /\ op.root.value \in 0..(op.p - 1)
                /\ (op.root.value * op.root.value) % op.p = op.a
                /\ op.result = FQ(op.root.value, op.p)
           ELSE /\ op.root = Raise("SquareRootError")
                /\ op.result = FQRaised

\* C12 witness: a residue of a prime p with p % 8 = 5 whose power (p-1)/4 is -1
C12_Witness ==
    /\ pc = "sqrt"
    /\ op.p % 8 = 5
    /\ op.a # 0
    /\ modular_exp(op.a, (op.p - 1) \div 4, op.p) = op.p - 1
    /\ op.root.raised = ""
    /\ (op.root.value * op.root.value) % op.p = op.a

\* an FQ with 0 <= n < m and the modulus m
InField(x, m) == x.m = m /\ x.n \in 0..(m - 1)

\* C13: every FQ constructed or returned by add, sub, rsub, mul, neg, div,
\* rdiv, exp, inv and sqrt, with FQ or int operands (negative and oversized
\* ints included), has 0 <= n < m and the modulus of the left operand; an
\* operation returns no FQ only where it raises (a modulus mismatch, a
\* negative power of a value without inverse, the root of a non-residue).
C13_FieldRange ==
    /\ pc \in {"field_int", "field_fq", "field_unary"} => InField(op.self, op.m)
    /\ pc = "field_int" =>
          IF op.name = "exp" /\ op.on < 0 /\ op.self.n = 0
          THEN op.result = FQRaised
          ELSE InField(op.result, op.m)
    /\ pc = "field_fq" =>
          /\ InField(op.other, op.other.m)
          /\ IF op.other.m # op.m THEN op.result = FQRaised
             ELSE InField(op.result, op.m)
    /\ pc = "field_unary" => InField(op.result, op.m)
    /\ pc = "sqrt" => (op.result = FQRaised \/ InField(op.result, op.p))

\* C13 witness: an int below the reflected operand's value is brought back
\* into the field
C13_Witness ==
    /\ pc = "field_int"
    /\ op.name = "rsub"
    /\ op.on - op.self.n < 0
    /\ op.raw > op.m
    /\ InField(op.result, op.m)
    /\ (op.result.n + op.self.n - op.on) % op.m = 0

\* C14: comparing two field elements with different moduli always fails with
\* an error and never answers true or false, whatever the two values are,
\* 0 included.
C14_CrossModulusCompareRaises ==
    (pc = "eq" /\ op.self.m # op.other.m) => op.result.raised = "RuntimeError"

\* C15: for every modulus m, to_bytes returns ceil(bits / 8) bytes, bits being
\* the bit length of m, with no extra byte when bits is already a multiple of
\* 8, and the same length for every value of that modulus.
C15_ToBytesLength ==
    pc = "to_bytes" => Len(op.bytes) = (ceil_log2(op.m) + 7) \div 8

\* the HexWidth characters of str from position i are hex digits of value v
HexField(str, i, v) ==
    /\ \A j \in i..(i + HexWidth - 1) : \E h \in 1..16 : HexChars[h] = str[j]
    /\ int16_digits(SubSeq(str, i, i + HexWidth - 1), 0) = v

\* C16: the string returned by EDDSASign.sign has exactly the fixed length,
\* "0x" followed by R.x, R.y and s each as zero-padded hex digits of the
\* fixed width; sig_str_to_signature applied to it recovers the same R and
\* s, and sig_str_to_signature rejects every string of any other length.
C16_SignatureString ==
    /\ (pc = "helper_sign" /\ op.result.raised = "") =>
          LET str == op.result.value.str
              sig == op.result.value.signed_msg.sig
          IN  /\ Len(str) = SigStrLen
              /\ SubSeq(str, 1, 2) = <<"0", "x">>
              /\ HexField(str, 3, sig.R.x.n)
              /\ HexField(str, 3 + HexWidth, sig.R.y.n)
              /\ HexField(str, 3 + 2 * HexWidth, sig.s.n)
    /\ pc = "parse_own" =>
          /\ op.result.raised = ""
          /\ op.result.value.R.x = op.signed_msg.sig.R.x.n
          /\ op.result.value.R.y = op.signed_msg.sig.R.y.n
          /\ op.result.value.s = op.signed_msg.sig.s
    /\ pc = "parse_sig" =>
          (Len(op.sig) # SigStrLen <=> op.result = Raise("AssertionError"))

\* C16 witness: a signature with a component that needs zero-filling is
\* parsed back
C16_Witness ==
    /\ pc = "parse_own"
    /\ op.signed_msg.sig.s.n < 16
    /\ op.result.raised = ""
    /\ op.result.value.s = op.signed_msg.sig.s

\* C17: every payload serialiser fails fast, producing no vector and no
\* signature, when a field value does not fit its bit width (negative, too
\* large, or at or above the field modulus); it never hashes a wrapped value.
C17_SerialiserFailsFast ==
    (/\ pc = "order_hash"
     /\ \E i \in 1..Len(op.vector) :
           op.vector[i] < 0 \/ op.vector[i] >= SNARK_SCALAR_FIELD)
    => op.result.raised # ""

\* C19: the order serialiser returns exactly 11 integers in the order
\* exchange, storage id, account id, sell-token id, buy-token id, sell
\* volume, buy volume, valid-until, max fee bips, direction flag, taker; the
\* last element is 0 when the payload has no taker; the length is strictly
\* below the state width t = 12 of the order signer, so the hash is taken.
C19_OrderVector ==
    pc = "order_hash" =>
        /\ Len(op.vector) = 11
        /\ op.vector[1] = int16(op.order.exchange)
        /\ op.vector[2] = op.order.storageId
        /\ op.vector[3] = op.order.accountId
        /\ op.vector[4] = op.order.sellToken.tokenId
        /\ op.vector[5] = op.order.buyToken.tokenId
        /\ op.vector[6] = op.order.sellToken.volume
        /\ op.vector[7] = op.order.buyToken.volume
        /\ op.vector[8] = op.order.validUntil
        /\ op.vector[9] = op.order.maxFeeBips
        /\ op.vector[10] = op.order.fillAmountBOrS
        /\ op.vector[11] = (IF "taker" \in DOMAIN op.order THEN int16(op.order.taker) ELSE 0)
        /\ Len(op.vector) < OrderEDDSASign_params.t
        /\ OrderEDDSASign_params.t = 12
        /\ op.result.raised = ""

\* C19 witness: an order without taker is serialised and hashed
C19_Witness ==
    /\ pc = "order_hash"
    /\ ~("taker" \in DOMAIN op.order)
    /\ op.order.sellToken.volume # op.order.buyToken.volume
    /\ op.vector[11] = 0
    /\ op.result.raised = ""

\* C18: across any sequence of get_token_configurations,
\* get_next_storage_id, submit_order, submit_internal_transfer,
\* submit_offchain_withdrawal_request and join_amm_pool, the storage ids
\* placed into signed requests of the same kind for one token are strictly
\* increasing: no storage id is issued twice.
C18_StorageIdsIncrease ==
    \A i \in 1..Len(issued), j \in 1..Len(issued) :
        (i < j /\ issued[i].kind = issued[j].kind /\ issued[i].token = issued[j].token)
        => issued[i].id < issued[j].id

\* str.split(sep) for a one-character sep
RECURSIVE split_from(_, _, _)
split_from(str, sep, part) ==
    IF Len(str) = 0 THEN <<part>>
    ELSE IF str[1] = sep THEN <<part>> \o split_from(Tail(str), sep, <<>>)
    ELSE split_from(Tail(str), sep, Append(part, str[1]))

split(str, sep) == split_from(str, sep, <<>>)

\* value of an upper-case hex digit
HexDigit(c) == IF Ord(c) \in 48..57 THEN Ord(c) - 48 ELSE Ord(c) - 55

\* the string a percent-encoded string stands for
RECURSIVE unquote(_)
unquote(str) ==
    IF Len(str) = 0 THEN <<>>
    ELSE IF str[1] = "%" /\ Len(str) >= 3
    THEN <<Ascii[16 * HexDigit(str[2]) + HexDigit(str[3]) - 31]>>
         \o unquote(SubSeq(str, 4, Len(str)))
    ELSE <<str[1]>> \o unquote(Tail(str))

\* str holds only unreserved characters and "%XX" escapes
PercentEncoded(str) ==
    \A i \in 1..Len(str) :
        \/ always_safe(str[i])
        \/ /\ str[i] = "%"
           /\ i + 2 <= Len(str)
           /\ \A j \in {i + 1, i + 2} : Ord(str[j]) \in (48..57) \cup (65..70)

\* qs is the query string of the items: k=v joined by "&", each v
\* percent-encoded
QueryStringOf(qs, items) ==
    IF Len(items) = 0 THEN qs = <<>>
    ELSE LET fields == split(qs, "&") IN
         /\ Len(fields) = Len(items)
         /\ \A i \in 1..Len(items) :
               LET kv == split(fields[i], "=") IN
               /\ Len(kv) = 2
               /\ kv[1] = items[i].k
               /\ PercentEncoded(kv[2])
               /\ unquote(kv[2]) = items[i].v

C21_MimcHashIsChainingValue ==
    pc = "mimc_hash" =>
        /\ op.result \in 0..(SNARK_SCALAR_FIELD - 1)
        /\ op.result = op.chain

\* row . state modulo p
RECURSIVE DotMod(_, _, _, _)
DotMod(row, state, n, p) ==
    IF n = 0 THEN 0 ELSE (DotMod(row, state, n - 1, p) + row[n] * state[n]) % p

\* the state after round i (0-based) of a permutation that enters it with prev
RoundOf(prev, i, params) ==
    LET added == [j \in 1..params.t |-> prev[j] + params.constants_C[i + 1]]
        half  == params.n_rounds_f \div 2
        full  == i < half \/ i >= half + params.n_rounds_p
        boxed == [j \in 1..params.t |->
                     IF full \/ j = 1 THEN pow(added[j], params.e, params.p) ELSE added[j]]
    IN  [r \in 1..params.t |-> DotMod(params.constants_M[r], boxed, params.t, params.p)]

\* C22: poseidon runs exactly n_rounds_f + n_rounds_p rounds; each round
\* adds its constant to every element, raises all t elements to the power e
\* in the first and last n_rounds_f/2 rounds and only element 0 in the
\* rounds between, then multiplies by the mixing matrix modulo p; after
\* every round all elements are in [0, p) and the result is element 0 of the
\* final state.
C22_PoseidonRounds ==
    (pc = "poseidon" /\ op.result.raised = "") =>
        LET params == op.params
            start  == [j \in 1..params.t |->
                          IF j <= Len(op.inputs) THEN op.inputs[j] ELSE 0]
            rounds == params.n_rounds_f + params.n_rounds_p
        IN  /\ Len(op.trace) = rounds
            /\ \A i \in 0..(rounds - 1) :
                  /\ op.trace[i + 1] =
                        RoundOf(IF i = 0 THEN start ELSE op.trace[i], i, params)
                  /\ \A j \in 1..params.t : op.trace[i + 1][j] \in 0..(params.p - 1)
            /\ op.result.value = op.trace[rounds][1]

\* C22 witness: a permutation of width 6 has run its full and partial rounds
\* on two nonzero inputs
C22_Witness ==
    /\ pc = "poseidon"
    /\ op.params.t = 6
    /\ op.params.n_rounds_p > 0
    /\ Len(op.inputs) = 2
    /\ op.inputs[1] # 0
    /\ op.result.raised = ""
    /\ Len(op.trace) = op.params.n_rounds_f + op.params.n_rounds_p
    /\ op.result.value = op.trace[Len(op.trace)][1]

\* the base points of the names and segments in use, computed once
PedersenBases ==
    {<<name, i, Point_from_hash(sha256(name, i)).value>> :
        name \in PedersenNames, i \in 0..(MaxWindows \div n_windows)}

\* the term of window j (0-based) in affine arithmetic: the base point of the
\* segment j div n_windows, times 16 for every window before j in the
\* segment, times 1 + the low two bits, negated if the top bit is set
PedersenTerm(name, windows, j) ==
    LET m == pow2(4 * (j % n_windows)) * ((windows[j + 1] % 4) + 1)
    IN  Strict((CHOOSE b \in PedersenBases :
                    b[1] = name /\ b[2] = j \div n_windows)[3], LAMBDA base :
        Strict(Point_mult_int(base, m), LAMBDA term :
            IF windows[j + 1] \div 4 = 1 THEN Point_neg(term) ELSE term))

\* the terms of the windows j, j + 1, ... (0-based), in that order
RECURSIVE PedersenTerms(_, _, _)
PedersenTerms(name, windows, j) ==
    IF j >= Len(windows) THEN <<>>
    ELSE <<PedersenTerm(name, windows, j)>> \o PedersenTerms(name, windows, j + 1)

\* the affine sum of the points of terms, added in the order of the sequence
RECURSIVE PedersenSum(_)
PedersenSum(terms) ==
    IF Len(terms) = 0 THEN Point_infinity
    ELSE Strict(PedersenSum(Tail(terms)), LAMBDA rest : Point_add(Head(terms), rest))

\* C23: pedersen_hash_windows accumulates for every window j a signed
\* multiple of the running base point: a fresh base point from
\* (name, j div n_windows) every n_windows windows, four doublings between
\* consecutive windows of a segment, the low two bits select the multiple
\* 1..4 and the top bit the negation; the result is the sum of the terms,
\* whatever the order they are added in.
C23_PedersenSumOfTerms ==
    pc = "pedersen" =>
        LET terms == PedersenTerms(op.name, op.windows, 0) IN
        /\ op.result = PedersenSum(terms)
        /\ op.result = PedersenSum(Reverse(terms))

\* C23 witness: three windows span two segments, the second window is
\* negated, and the hash is not the identity
C23_Witness ==
    /\ pc = "pedersen"
    /\ Len(op.windows) = 3
    /\ op.windows[2] > 3
    /\ op.result # Point_infinity
    /\ LET terms == PedersenTerms(op.name, op.windows, 0)
       IN  op.result = PedersenSum(<<terms[2], terms[3], terms[1]>>)

\* C24: CurveOps.mult terminates and returns a point for every integer
\* scalar (zero, positive and negative) and for every FQ scalar with an
\* allowed modulus: a call that entered the loop always comes to its return.
C24_MultTerminates == (pc = "mult_loop") ~> (pc = "mult_done")

\* C25: across any sequence of get_exchange_configurations calls on one
\* client the exchange domain separator is initialised exactly once:
\* EIP712.init_env is called by the first call and by no later call.
C25_InitEnvOnce ==
    /\ calls.get_exchange_configurations >= 1 => calls.init_env = 1
    /\ (pc = "get_exchange_configurations" /\ calls.get_exchange_configurations > 1)
           => ~op.init_env

\* the pools of the answer that register the address a, in order
PoolsAt(pools, a) == SelectSeq(pools, LAMBDA p : p.address = a)

\* C29: a pool digest is only ever computed with the domain separator
\* registered for exactly that pool address: the hash raises and gives no
\* digest when no domain was registered for the payload's pool address, the
\* digest is over the domain whose verifying contract is that address, and
\* registering pools changes only the entries of their addresses, leaving
\* every other pool's domain and the exchange domain unchanged.
C29_PoolDomains ==
    /\ pc = "generate_amm_pool_join_EIP712_hash" =>
          IF op.payload.poolAddress \notin DOMAIN EIP712.amm_pool_domains
          THEN op.result.raised = "KeyError"
          ELSE /\ op.result.raised = ""
               /\ op.result.value.keccak[2] =
                      hash_struct(EIP712.amm_pool_domains[op.payload.poolAddress])
               /\ EIP712.amm_pool_domains[op.payload.poolAddress].verifyingContract =
                      op.payload.poolAddress
    /\ pc = "get_amm_pool_configurations" =>
          /\ EIP712.exchange_domain = op.before.exchange_domain
          /\ DOMAIN EIP712.amm_pool_domains =
                 DOMAIN op.before.amm_pool_domains \cup
                     {op.pools[i].address : i \in 1..Len(op.pools)}
          /\ \A a \in DOMAIN EIP712.amm_pool_domains :
                LET at == PoolsAt(op.pools, a)
                IN  IF Len(at) = 0
                    THEN EIP712.amm_pool_domains[a] = op.before.amm_pool_domains[a]
                    ELSE EIP712.amm_pool_domains[a] =
                             make_domain(at[Len(at)].name, at[Len(at)].version,
                                         chain_id, a)

\* C29 witness: a digest was computed for a registered pool while another
\* pool, registered by an earlier answer, has a domain of its own
C29_Witness ==
    /\ pc = "generate_amm_pool_join_EIP712_hash"
    /\ op.result.raised = ""
    /\ \E a \in DOMAIN EIP712.amm_pool_domains :
          /\ a # op.payload.poolAddress
          /\ EIP712.amm_pool_domains[a].name #
                 EIP712.amm_pool_domains[op.payload.poolAddress].name

\* C26 as stated: each of the 8 points of all_loworder_points satisfies the
\* curve equation and, multiplied by the subgroup order JUBJUB_L, yields
\* the identity point (0, 1).
C26_LowOrderTimesL ==
    pc = "loworder" => op.valid /\ op.timesL = Point_infinity

\* C26 amended: each of the 8 points of all_loworder_points satisfies the
\* curve equation and, multiplied by the cofactor JUBJUB_C, yields the
\* identity point (0, 1); multiplied by the subgroup order JUBJUB_L only the
\* identity itself does.
C26_LowOrderTimesCofactor ==
    /\ Len(all_loworder_points) = 8
    /\ pc = "loworder" =>
          /\ op.valid
          /\ op.timesC = Point_infinity
          /\ op.timesL = Point_infinity <=> op.P = Point_infinity

\* C26 witness: a low-order point other than the identity was multiplied
C26_Witness ==
    /\ pc = "loworder"
    /\ op.P # Point_infinity
    /\ op.timesC = Point_infinity
    /\ op.timesL # Point_infinity

\* T*Z == X*Y for the extended point e
EtecCoherent(e) == FQ_mul(e.t, e.z) = FQ_mul(e.x, e.y)

\* C27: every EtecPoint (X, Y, T, Z) produced by a conversion (Point.as_etec,
\* ProjPoint.as_etec for any Z # 0) or by EtecPoint.add, double or neg
\* applied to such points satisfies T*Z == X*Y.
C27_EtecCoherent ==
    /\ pc = "as_etec" => EtecCoherent(op.result)
    /\ pc = "proj_as_etec" => EtecCoherent(op.result)
    /\ pc = "etec_arith" =>
          /\ EtecCoherent(op.a) /\ EtecCoherent(op.b)
          /\ EtecCoherent(op.sum) /\ EtecCoherent(op.double) /\ EtecCoherent(op.neg)

\* the same for the points that come from Point.as_etec only
EtecCoherentFromAffine ==
    /\ pc = "as_etec" => EtecCoherent(op.result)
    /\ pc = "etec_arith" =>
          /\ EtecCoherent(op.a) /\ EtecCoherent(op.b)
          /\ EtecCoherent(op.sum) /\ EtecCoherent(op.double) /\ EtecCoherent(op.neg)

\* C28: extended-form arithmetic agrees with affine arithmetic for every
\* pair of valid points, including the identity, equal operands and mutually
\* inverse operands: P.as_etec().add(Q.as_etec()).as_point() == P.add(Q) and
\* P.as_etec().double().as_point() == P.add(P), and the results satisfy the
\* curve equation.
C28_EtecAgreesWithAffine ==
    pc = "etec_arith" =>
        /\ EtecPoint_as_point(op.sum) = Point_add(op.P, op.Q)
        /\ EtecPoint_as_point(op.double) = Point_add(op.P, op.P)
        /\ Point_valid(EtecPoint_as_point(op.sum))
        /\ Point_valid(EtecPoint_as_point(op.double))

\* C28 witness: a point that is not the identity was added to its inverse
\* and the extended sum is the identity
C28_Witness ==
    /\ pc = "etec_arith"
    /\ op.P # Point_infinity
    /\ op.P.x.n # 0
    /\ op.Q = Point_neg(op.P)
    /\ EtecPoint_as_point(op.sum) = Point_infinity

\* C30: Point.decompress accepts only canonical encodings: for every byte
\* string b that decompress accepts, compress(decompress(b)) == b (an
\* encoded y >= the field modulus, or a set sign bit when x = 0, is not
\* accepted as an alias).
C30_DecompressCanonical ==
    (pc = "decompress_bytes" /\ op.result.raised = "") => op.again = op.bytes

\* the same for the encodings with y below the field modulus and no sign bit
\* on a point with x = 0
DecompressCanonicalInRange ==
    (/\ pc = "decompress_bytes"
     /\ op.result.raised = ""
     /\ int_from_bytes(op.bytes) % pow2(SignBit) < JUBJUB_Q
     /\ ~(op.result.value.x.n = 0 /\ int_from_bytes(op.bytes) >= pow2(SignBit)))
        => op.again = op.bytes

===========================================================================
